---- MODULE Spec2Model ----
(***************************************************************************)
(* Vote casting of ga_voting_api (voting/views.py, voting/serializers.py,  *)
(* voting/models.py, authentication/models.py).                            *)
(*                                                                         *)
(* The database outlives every request: the initial state ranges over the  *)
(* databases that satisfy the constraints models.py declares (primary      *)
(* keys, foreign keys, unique_together).  A cast-vote request is the       *)
(* handler CastVoteView.post, cut where other requests, the clock and the  *)
(* administrator can interleave: authentication and validation             *)
(* (lines 186-214), the second look-up and the municipality check          *)
(* (lines 216-239), and the atomic block with the response                 *)
(* (lines 241-291).                                                        *)
(*                                                                         *)
(* The SPID handshake (authentication/views.py, oidc_utils.py,             *)
(* crypto_utils.py) is leg 1, SPIDLoginView.get, one step, and the         *)
(* callback, SPIDCallbackView.post, cut between the look-up of the citizen *)
(* (line 208) and the write that follows it (lines 210-250), where another *)
(* callback can interleave.  Spec runs the cast-vote requests over every   *)
(* database; SpecAuth runs the handshake over the citizen tables, with     *)
(* empty ledgers.                                                          *)
(*                                                                         *)
(* SpecLocks runs the cast-vote requests with the atomic block cut at its  *)
(* SELECT ... FOR UPDATE; SpecList runs the read-only endpoints of         *)
(* voting/urls.py; SpecOidc runs the calls of get_oidc_metadata and        *)
(* get_jwks against a provider that may not answer; SpecCrypto runs        *)
(* encrypt_data and decrypt_data over a set of strings.  SpecLocksFair is  *)
(* SpecLocks with every request handler scheduled fairly; SpecResults      *)
(* applies VotingResultSerializer.get_results to tallies; SpecAdmin runs   *)
(* the cast-vote requests beside the admin pages of the two ledgers        *)
(* (voting/admin.py).                                                      *)
(***************************************************************************)
EXTENDS Integers, FiniteSets, Sequences, TLC

(***************************************************************************)
(* Bounds of the model.                                                    *)
(***************************************************************************)
\* number of cast-vote requests in one behaviour
NumRequests == 2
\* the clock runs from 0 to MaxTime
MaxTime == 3
\* rows the voter ledger and the tally hold at most in the initial database
MaxRows == 2
MaxResultRows == 1
\* calls of get_oidc_metadata and get_jwks in one behaviour
MaxCalls == 3
\* initialisation vectors, and calls of encrypt_data in one behaviour
NumIVs == 3
MaxEncryptions == 2
\* responses of the read-only endpoints in one behaviour
MaxListings == 2
\* rows of the tally get_results is applied to
MaxTallyRows == 3
\* requests to the admin pages of the ledgers
MaxAdminRequests == 2

\* oidc_utils.JWKS_CACHE_DURATION and METADATA_CACHE_DURATION, 24 hours each,
\* in ticks of the clock
JWKS_CACHE_DURATION == 2
METADATA_CACHE_DURATION == 2

Requests == 1..NumRequests

(***************************************************************************)
(* Rows of the reference tables, and None, the absent value.               *)
(***************************************************************************)
None == 0
\* the ids a client can put in a request: those of the rows and one of no row
SessionCitizenIdInputs == {None, 1, 2, 3}
VotingSessionIdInputs == {1, 2, 3}
OptionIdInputs == {1, 3, 4}

\* authentication/models.py Municipality: two municipalities, ipa_code unique
Municipality == {"M1", "M2"}
ipa_code(m) == IF m = "M1" THEN "c_m1" ELSE "c_m2"

(***************************************************************************)
(* Fiscal codes are strings, here sequences of characters.                 *)
(* crypto_utils.hash_fiscal_code (lines 89-113) strips and uppercases the  *)
(* code and takes its SHA-256, a function without collisions here.         *)
(***************************************************************************)
upper(ch) ==
    CASE ch = "r" -> "R" [] ch = "s" -> "S" [] ch = "v" -> "V"
      [] ch = "d" -> "D" [] ch = "b" -> "B" [] ch = "n" -> "N"
      [] OTHER -> ch

RECURSIVE lstrip(_)
lstrip(str) == IF str # <<>> /\ Head(str) = " " THEN lstrip(Tail(str)) ELSE str

RECURSIVE rstrip(_)
rstrip(str) ==
    IF str # <<>> /\ str[Len(str)] = " "
    THEN rstrip(SubSeq(str, 1, Len(str) - 1)) ELSE str

strip(str) == rstrip(lstrip(str))
str_upper(str) == [i \in 1..Len(str) |-> upper(str[i])]
sha256(str) == <<"sha256", str>>

\* the hash of the fiscal code as it is given, without lines 108-109
hash_fiscal_code_as_given(fiscal_code) ==
    IF fiscal_code = <<>> THEN <<>> ELSE sha256(fiscal_code)

hash_fiscal_code(fiscal_code) ==
    IF fiscal_code = <<>> THEN <<>> ELSE sha256(str_upper(strip(fiscal_code)))

\* the fiscal codes of the citizens of the initial table, and one of nobody
RSS == <<"R", "S">>
VRD == <<"V", "D">>
BNC == <<"B", "N">>

\* the first of them as a provider may send it: lower case, blanks around it
RSS_variant == <<" ", "r", "s", " ">>

\* authentication/models.py Citizen: id -> municipality and fiscal_code_hash
\* (the encrypted columns are left out)
CitizenIds == {1, 2}
InitCitizen ==
    [c \in CitizenIds |->
        [municipality |-> IF c = 1 THEN "M1" ELSE "M2",
         fiscal_code_hash |-> IF c = 1 THEN hash_fiscal_code(RSS)
                                       ELSE hash_fiscal_code(VRD)]]

\* voting/models.py VotingSession: both sessions run from time 1 to time 2
VotingSessionIds == {1, 2}
InitVotingSession ==
    [s \in VotingSessionIds |->
        [municipality |-> IF s = 1 THEN "M1" ELSE "M2",
         is_active |-> TRUE, start_date |-> 1, end_date |-> 2,
         results_public |-> FALSE]]

\* voting/models.py Option: options 1 and 2 belong to session 1, option 3 to session 2
OptionIds == {1, 2, 3}
Option == [o \in OptionIds |-> [voting_session_id |-> IF o = 3 THEN 2 ELSE 1]]

\* crypto_utils.generate_session_hash: the values secrets.token_bytes can return
SessionHashes == {"h1", "h2"}

VARIABLES
    now,            \* timezone.now()
    Citizen,        \* table Citizen: id -> row
    VotingSession,  \* table VotingSession: id -> row
    CitizenHasVoted,\* table CitizenHasVoted (voter ledger): set of rows
    Result,         \* table Result (tally): set of rows
    request,        \* the cast-vote requests: r -> position, session data, body, locals, response
    login,          \* the leg 1 request: position, query parameter, response
    callback,       \* the callbacks: r -> position, parameters, locals, response
    session,        \* request.session of the client of callback r
    jwks_cache,     \* django cache entry jwks_<tenant>
    jwks_provider,  \* the key ids the provider publishes at its jwks_uri
    metadata_cache, \* django cache entry oidc_metadata_<tenant>
    oidc_call,      \* the last call of get_oidc_metadata or get_jwks: its outcome
    crypto,         \* a run of encrypt_data and decrypt_data: arguments and results
    listing,        \* the last response of the read-only voting endpoints
    locks,          \* the ledger rows the open transaction of request r holds FOR UPDATE
    admin           \* the last request to the admin pages of the two ledgers

vars == <<now, Citizen, VotingSession, CitizenHasVoted, Result, request,
          login, callback, session, jwks_cache, jwks_provider, metadata_cache,
          oidc_call, crypto, listing, locks, admin>>

\* what the handshake reads and writes beside the tables
auth_vars == <<login, callback, session, jwks_cache, jwks_provider, metadata_cache>>

\* what the utilities, the read-only endpoints and the row locks hold
aux_vars == <<oidc_call, crypto, listing, locks, admin>>

(***************************************************************************)
(* Django's model layer.                                                   *)
(***************************************************************************)
\* the fields voting/models.py declares (id is Django's automatic primary key)
CitizenHasVoted_fields == {"id", "citizen", "voting_session", "timestamp"}
Result_fields == {"id", "voting_session", "option", "timestamp", "session_hash"}

\* the keyword arguments CastVoteView.post passes to objects.create
CitizenHasVoted_create_kwargs == {"citizen", "voting_session", "ip_address"}
Result_create_kwargs == {"voting_session", "option", "session_hash"}

\* Model.__init__ raises TypeError for a keyword that is no field of the model,
\* before any statement reaches the database
raises_TypeError(fields, kwargs) == kwargs \ fields # {}

\* primary key: no two rows of a table share an id
PrimaryKey(table) == \A x, y \in table : x.id = y.id => x = y

\* unique_together left out of CitizenHasVoted.Meta
unique_together_dropped(table) == TRUE

\* CitizenHasVoted.Meta.unique_together = ('citizen', 'voting_session')
unique_together(table) ==
    \A x, y \in table :
        (x.citizen = y.citizen /\ x.voting_session = y.voting_session) => x = y

\* ForeignKey(..., on_delete=PROTECT): every reference names an existing row
ForeignKeys(chv, res) ==
    /\ \A x \in chv : x.citizen \in DOMAIN Citizen /\ x.voting_session \in DOMAIN VotingSession
    /\ \A x \in res : x.voting_session \in DOMAIN VotingSession /\ x.option \in DOMAIN Option

\* the id the database gives the next row of a table (AutoField)
NextId(table) ==
    IF table = {} THEN 1
    ELSE (CHOOSE i \in {x.id : x \in table} : \A x \in table : x.id <= i) + 1

\* is_open without the comparison with end_date
is_open_without_end_date(s) ==
    /\ VotingSession[s].is_active
    /\ VotingSession[s].start_date <= now

\* VotingSession.is_open
is_open(s) ==
    /\ VotingSession[s].is_active
    /\ VotingSession[s].start_date <= now
    /\ now <= VotingSession[s].end_date

\* the query with the two keys exchanged
has_voted_keys_exchanged(citizen, voting_session) ==
    \E x \in CitizenHasVoted :
        x.citizen = voting_session /\ x.voting_session = citizen

\* the query CitizenHasVoted.objects.filter(citizen=, voting_session=).exists()
has_voted(citizen, voting_session) ==
    \E x \in CitizenHasVoted :
        x.citizen = citizen /\ x.voting_session = voting_session

(***************************************************************************)
(* The initial database.                                                   *)
(***************************************************************************)
\* the tables of n rows with ids 1..n, n <= MaxRows
Tables(rows, max) ==
    UNION {{ {[id |-> i] @@ f[i] : i \in 1..n} : f \in [1..n -> rows] } : n \in 0..max}

CitizenHasVotedRows ==
    [citizen : CitizenIds, voting_session : VotingSessionIds, timestamp : {0}]
ResultRows ==
    [voting_session : VotingSessionIds, option : OptionIds, timestamp : {0},
     session_hash : {"h0"}]

(***************************************************************************)
(* The state parameter of the handshake (authentication/views.py, lines    *)
(* 72-82 and 161-177).  A state value is text in some alphabet; the text   *)
(* is a JSON object, a sequence of members, or broken JSON.                *)
(***************************************************************************)
Member(key, value) == [key |-> key, value |-> value]

\* json.dumps of the state payload (lines 73-77, 81)
json_dumps(voting_session_id, timestamp, nonce) ==
    [syntax |-> "object",
     members |-> << Member("voting_session_id", voting_session_id),
                    Member("timestamp", timestamp),
                    Member("nonce", nonce) >>]

\* base64.urlsafe_b64encode(...).decode() (lines 80-82)
urlsafe_b64encode(text) == [alphabet |-> "base64url", text |-> text]

\* base64.urlsafe_b64decode raises on text that is not base64 (line 163)
b64decode_raises(state) == state.alphabet # "base64url"

\* json.loads raises on broken JSON (line 164)
json_loads_raises(text) == text.syntax # "object"

\* dict.get: the value of the first member with that key, None without one
dict_get(members, key) ==
    IF \E i \in 1..Len(members) : members[i].key = key
    THEN members[CHOOSE i \in 1..Len(members) :
                    /\ members[i].key = key
                    /\ \A j \in 1..(i - 1) : members[j].key # key].value
    ELSE None

\* lines 162-177: the voting_session_id of a state value, None when the
\* branch "except Exception" is taken
decode_state(state) ==
    IF b64decode_raises(state) \/ json_loads_raises(state.text)
    THEN None
    ELSE dict_get(state.text.members, "voting_session_id")

\* secrets.token_urlsafe(16): the nonces leg 1 can draw
Nonces == {1, 2}

\* the request carries no state (request.POST.get and request.GET.get give None)
NoState == [alphabet |-> "", text |-> [syntax |-> "", members |-> <<>>]]

\* state values no leg 1 produced: text that is not base64, base64 of broken
\* JSON, base64 of an object without voting_session_id, and base64 of
\* well-formed payloads written by the client for sessions 1, 2 and 3
ForgedStates ==
    { [alphabet |-> "other", text |-> json_dumps(1, 1, 1)],
      urlsafe_b64encode([syntax |-> "broken", members |-> <<>>]),
      urlsafe_b64encode([syntax |-> "object", members |-> <<Member("nonce", 1)>>]) }
    \cup { urlsafe_b64encode(json_dumps(s, 0, 0)) : s \in {1, 2, 3} }

(***************************************************************************)
(* Identity tokens (authentication/oidc_utils.py).  A token names a key id *)
(* in its header, is signed with some key, expires at exp and carries a    *)
(* fiscal code claim or none.                                              *)
(***************************************************************************)
Token(kid, signed_by, exp, fiscalNumber) ==
    [kid |-> kid, signed_by |-> signed_by, exp |-> exp, fiscalNumber |-> fiscalNumber]

\* the request carries no token
NoToken == Token("", "", 0, <<>>)

\* the tokens a callback presents
TokenInputs ==
    { NoToken,
      Token("", "k1", MaxTime + 1, RSS),        \* header without kid
      Token("k1", "k1", MaxTime + 1, RSS),      \* of a registered citizen
      Token("k2", "k2", MaxTime + 1, RSS),      \* signed with the rotated-in key
      Token("k1", "attacker", MaxTime + 1, RSS),\* signature of another key
      Token("k1", "k1", 1, RSS),                \* expires at time 1
      Token("k1", "k1", MaxTime + 1, <<>>),     \* no fiscal code claim
      Token("k1", "k1", MaxTime + 1, BNC),      \* of a person not yet registered
      Token("k1", "k1", MaxTime + 1, RSS_variant) } \* the first, not normalized

(***************************************************************************)
(* The key set (oidc_utils.get_jwks, lines 86-131) and the verification of *)
(* a token (get_signing_key, verify_jwt_signature, decode_spid_token).     *)
(***************************************************************************)
\* cache.get gives None for an entry that was never set or has timed out
NoCache == [set |-> FALSE, keys |-> {}, expires_at |-> 0]

\* a cache whose entries never time out
cache_get_without_timeout(entry, time) ==
    IF entry.set THEN entry ELSE NoCache

cache_get(entry, time) ==
    IF entry.set /\ time < entry.expires_at THEN entry ELSE NoCache

Raised(exception, detail) == [exception |-> exception, detail |-> detail]
NotRaised == Raised("", "")

\* the two URLs the utilities request: the metadata document and its jwks_uri
MetadataUrl == "openid-configuration"
JwksUri == "jwks_uri"
Urls == {MetadataUrl, JwksUri}

\* the cache check of lines 58-63 left out: every call requests the document
get_oidc_metadata_uncached(entry, reachable, time) ==
    IF MetadataUrl \in reachable
    THEN [raised |-> NotRaised,
          cache |-> [set |-> TRUE, keys |-> {},
                     expires_at |-> time + METADATA_CACHE_DURATION],
          requests |-> <<MetadataUrl>>]
    ELSE [raised |-> Raised("RequestException", "Failed to download OIDC metadata"),
          cache |-> entry, requests |-> <<MetadataUrl>>]

\* oidc_utils.get_oidc_metadata, lines 42-83: the cached document, or one request
\* of the metadata URL, whose answer is cached; a failed request is raised again
\* and nothing is cached.  reachable is the set of URLs that answer; requests
\* lists the outbound requests of the call.
get_oidc_metadata(entry, reachable, time) ==
    IF cache_get(entry, time).set
    THEN [raised |-> NotRaised, cache |-> entry, requests |-> <<>>]
    ELSE IF MetadataUrl \in reachable
    THEN [raised |-> NotRaised,
          cache |-> [set |-> TRUE, keys |-> {},
                     expires_at |-> time + METADATA_CACHE_DURATION],
          requests |-> <<MetadataUrl>>]
    ELSE [raised |-> Raised("RequestException", "Failed to download OIDC metadata"),
          cache |-> entry, requests |-> <<MetadataUrl>>]

\* oidc_utils.get_jwks, lines 86-131: the cached key set, or the metadata (for
\* its jwks_uri) and one request of the jwks_uri, whose answer is cached
get_jwks(entry, metadata_entry, provider, reachable, time) ==
    LET metadata == get_oidc_metadata(metadata_entry, reachable, time)
    IN  IF cache_get(entry, time).set
        THEN [raised |-> NotRaised, keys |-> entry.keys, cache |-> entry,
              metadata_cache |-> metadata_entry, requests |-> <<>>]
        ELSE IF metadata.raised # NotRaised
        THEN [raised |-> metadata.raised, keys |-> {}, cache |-> entry,
              metadata_cache |-> metadata.cache, requests |-> metadata.requests]
        ELSE IF JwksUri \in reachable
        THEN [raised |-> NotRaised, keys |-> provider,
              cache |-> [set |-> TRUE, keys |-> provider,
                         expires_at |-> time + JWKS_CACHE_DURATION],
              metadata_cache |-> metadata.cache,
              requests |-> metadata.requests \o <<JwksUri>>]
        ELSE [raised |-> Raised("RequestException", "Failed to download JWKS"),
              keys |-> {}, cache |-> entry, metadata_cache |-> metadata.cache,
              requests |-> metadata.requests \o <<JwksUri>>]

\* lines 147-165: ValueError for a header without kid (the key set is not
\* read then) and for a kid the key set does not hold
get_signing_key(token, keys) ==
    IF token.kid = "" THEN Raised("ValueError", "Token header does not contain 'kid'")
    ELSE IF token.kid \notin keys
         THEN Raised("ValueError", "Signing key with kid not found in JWKS")
         ELSE NotRaised

\* jwt.decode with verify_exp off
jwt_decode_without_exp(token, time) ==
    IF token.signed_by # token.kid
    THEN Raised("InvalidSignatureError", "Signature verification failed")
    ELSE NotRaised

\* lines 199-221, jwt.decode: the signature is checked with the key the
\* header names, then the expiry
jwt_decode(token, time) ==
    IF token.signed_by # token.kid
    THEN Raised("InvalidSignatureError", "Signature verification failed")
    ELSE IF token.exp <= time
         THEN Raised("ExpiredSignatureError", "Signature has expired")
         ELSE NotRaised

\* lines 190-221
verify_jwt_signature(token, keys, time) ==
    IF get_signing_key(token, keys) # NotRaised
    THEN get_signing_key(token, keys)
    ELSE jwt_decode(token, time)

\* lines 149-155 and 195: the key set and the metadata a verification reads.
\* The key set is not read for a header without kid, and the metadata not when
\* get_signing_key raised.
verify_jwt_signature_fetch(token, entry, metadata_entry, provider, reachable, time) ==
    LET jwks == get_jwks(entry, metadata_entry, provider, reachable, time)
        metadata == get_oidc_metadata(jwks.metadata_cache, reachable, time)
    IN  IF token.kid = ""
        THEN [raised |-> NotRaised, keys |-> {}, cache |-> entry,
              metadata_cache |-> metadata_entry, requests |-> <<>>]
        ELSE IF jwks.raised # NotRaised \/ token.kid \notin jwks.keys
        THEN jwks
        ELSE [raised |-> metadata.raised, keys |-> jwks.keys, cache |-> jwks.cache,
              metadata_cache |-> metadata.cache,
              requests |-> jwks.requests \o metadata.requests]

\* lines 252-268
decode_spid_token(token, keys, time) ==
    IF verify_jwt_signature(token, keys, time) # NotRaised
    THEN verify_jwt_signature(token, keys, time)
    ELSE IF token.fiscalNumber = <<>>
         THEN Raised("ValueError", "Fiscal code not found in SPID token")
         ELSE NotRaised

\* lines 305-316
extract_token_from_callback(token) ==
    IF token = NoToken THEN Raised("ValueError", "Token not found in SPID callback")
                       ELSE NotRaised

(***************************************************************************)
(* The Citizen table (authentication/models.py, lines 26-68) and the two   *)
(* writes of the callback (authentication/views.py, lines 229, 244-247).   *)
(***************************************************************************)
Citizen_fields ==
    {"id", "municipality", "fiscal_code_hash", "fiscal_code_encrypted",
     "email_encrypted", "registration_date"}

\* the keys of encrypt_citizen_data (crypto_utils.py, lines 171-177) and municipality
Citizen_create_kwargs ==
    {"municipality", "fiscal_code_hash", "fiscal_code_encrypted",
     "first_name_encrypted", "last_name_encrypted", "email_encrypted"}

\* citizen.save(update_fields=['last_access'])
Citizen_save_update_fields == {"last_access"}

\* fiscal_code_hash is unique (lines 39-45)
unique_fiscal_code_hash_dropped(table) == TRUE

unique_fiscal_code_hash(table) ==
    \A x, y \in DOMAIN table :
        table[x].fiscal_code_hash = table[y].fiscal_code_hash => x = y

\* Citizen.objects.filter(fiscal_code_hash=...).first(): the id of the row, or None
Citizen_objects_filter_first(table, fiscal_code_hash) ==
    IF \E c \in DOMAIN table : table[c].fiscal_code_hash = fiscal_code_hash
    THEN CHOOSE c \in DOMAIN table : table[c].fiscal_code_hash = fiscal_code_hash
    ELSE None

NoResponse == [status |-> 0, error |-> "", detail |-> {}]
IdleRequest ==
    [pc |-> "idle", citizen_id |-> None, voting_session_id |-> None,
     option_id |-> None, citizen_municipality |-> "", response |-> NoResponse]

\* the query parameter and the response of leg 1; state and codiceIpa are the
\* parameters of the spid_url a 200 response carries
LoginResponse(status, error, state, codiceIpa) ==
    [status |-> status, error |-> error, state |-> state, codiceIpa |-> codiceIpa]
IdleLogin ==
    [pc |-> "idle", voting_session_id |-> None,
     response |-> LoginResponse(0, "", NoState, "")]

\* a callback: its parameters, the locals it holds between its two steps
\* (citizen is the id of the row line 208 found, or None) and its response
IdleCallback ==
    [pc |-> "idle", state |-> NoState, token |-> NoToken,
     voting_session_id |-> None, fiscal_code |-> <<>>, citizen |-> None,
     response |-> [status |-> 0, error |-> "", detail |-> ""]]

\* request.session before the callback wrote to it
EmptySession ==
    [citizen_id |-> None, municipality_id |-> "", voting_session_id |-> None,
     authenticated_via |-> ""]

\* no handshake has begun, nothing is cached, the provider publishes key k1
InitHandshake ==
    /\ login = IdleLogin
    /\ callback = [r \in Requests |-> IdleCallback]
    /\ session = [r \in Requests |-> EmptySession]
    /\ jwks_cache = NoCache
    /\ jwks_provider = {"k1"}
    /\ metadata_cache = NoCache

\* no utility has been called, no list has been served, no row is locked
IdleOidcCall == [function |-> "", calls |-> 0, raised |-> NotRaised, requests |-> <<>>]
IdleCrypto == [data |-> <<>>, encrypted |-> <<>>, decrypted |-> <<>>]
NoListing ==
    [served |-> 0, status |-> 0, message |-> "", sessions |-> {},
     voting_session |-> None, options |-> <<>>, results |-> <<>>]
\* the row a request to the admin pages is about: none
NoObject == [citizen |-> None, voting_session |-> None]

\* no request to the admin pages yet
NoAdminRequest ==
    [served |-> 0, model |-> "", view |-> "", is_superuser |-> FALSE, status |-> 0,
     obj |-> NoObject]

InitAux ==
    /\ oidc_call = IdleOidcCall
    /\ crypto = IdleCrypto
    /\ listing = NoListing
    /\ locks = [r \in Requests |-> {}]
    /\ admin = NoAdminRequest

Init ==
    /\ InitHandshake
    /\ InitAux
    /\ now = 0
    /\ Citizen = InitCitizen
    /\ VotingSession = InitVotingSession
    /\ CitizenHasVoted \in Tables(CitizenHasVotedRows, MaxRows)
    /\ Result \in Tables(ResultRows, MaxResultRows)
    /\ PrimaryKey(CitizenHasVoted) /\ PrimaryKey(Result)
    /\ unique_together(CitizenHasVoted)
    /\ ForeignKeys(CitizenHasVoted, Result)
    /\ request = [r \in Requests |-> IdleRequest]

\* the citizen tables of the handshake: the citizens of InitCitizen, each with
\* the fiscal code hash of one of the two registered persons
CitizenTables ==
    { [c \in CitizenIds |-> [InitCitizen[c] EXCEPT !.fiscal_code_hash = h[c]]] :
        h \in [CitizenIds -> {hash_fiscal_code(RSS), hash_fiscal_code(VRD)}] }

\* the handshake starts from a database without votes
InitAuth ==
    /\ InitHandshake
    /\ InitAux
    /\ now = 0
    /\ Citizen \in CitizenTables
    /\ unique_fiscal_code_hash(Citizen)
    /\ VotingSession = InitVotingSession
    /\ CitizenHasVoted = {}
    /\ Result = {}
    /\ request = [r \in Requests |-> IdleRequest]

(***************************************************************************)
(* CastVoteSerializer (voting/serializers.py).  Each validator gives the   *)
(* set of errors it raises; the empty set means the value passed.          *)
(***************************************************************************)
validate_voting_session_id(value) ==
    IF value \notin DOMAIN VotingSession THEN {"Voting session not found."}
    ELSE IF ~VotingSession[value].is_active THEN {"Voting session is not active."}
    ELSE IF ~is_open(value) THEN {"Voting is closed."}
    ELSE {}

validate_option_id(value) ==
    IF value \notin DOMAIN Option THEN {"Option not found."} ELSE {}

\* validate() without the check that the option belongs to the session
validate_without_option_check(citizen, voting_session_id, option_id) ==
    IF option_id \notin DOMAIN Option THEN {"Option not found."}
    ELSE IF has_voted(citizen, voting_session_id)
         THEN {"You have already voted in this session."}
    ELSE {}

\* the cross-field validate(): the option belongs to the session, the citizen has not voted
validate(citizen, voting_session_id, option_id) ==
    IF option_id \notin DOMAIN Option THEN {"Option not found."}
    ELSE IF Option[option_id].voting_session_id # voting_session_id
         THEN {"Option does not belong to this voting session."}
    ELSE IF has_voted(citizen, voting_session_id)
         THEN {"You have already voted in this session."}
    ELSE {}

\* Serializer.is_valid: the field validators all run and their errors are
\* collected; validate() runs only when no field failed
serializer_errors(citizen, voting_session_id, option_id) ==
    LET fields == validate_voting_session_id(voting_session_id)
                    \cup validate_option_id(option_id)
    IN  IF fields # {} THEN fields
        ELSE validate(citizen, voting_session_id, option_id)

(***************************************************************************)
(* CastVoteView.post (voting/views.py).                                    *)
(***************************************************************************)
Response(status, error, detail) ==
    [status |-> status, error |-> error, detail |-> detail]

Respond(r, req, status, error, detail) ==
    request' = [request EXCEPT ![r] =
                  [req EXCEPT !.pc = "done", !.response = Response(status, error, detail)]]

\* the view without its handler of Citizen.DoesNotExist (lines 197-201): the
\* exception reaches the outer handler
CastVoteView_post_unauthorized_DoesNotExist_unhandled(r) ==
    /\ request[r].pc = "idle"
    /\ \E cid \in SessionCitizenIdInputs :
         LET req == [request[r] EXCEPT !.citizen_id = cid]
         IN  /\ cid = None \/ cid \notin DOMAIN Citizen
             /\ IF cid = None
                  THEN Respond(r, req, 401, "Authentication required", {})
                  ELSE Respond(r, req, 500, "Failed to cast vote", {})
    /\ UNCHANGED <<now, Citizen, VotingSession, CitizenHasVoted, Result>>
    /\ UNCHANGED auth_vars
    /\ UNCHANGED aux_vars

\* lines 186-201: the session's citizen_id and the Citizen row; the body is not read
CastVoteView_post_unauthorized(r) ==
    /\ request[r].pc = "idle"
    /\ \E cid \in SessionCitizenIdInputs :
         LET req == [request[r] EXCEPT !.citizen_id = cid]
         IN  /\ cid = None \/ cid \notin DOMAIN Citizen
             /\ IF cid = None
                  THEN Respond(r, req, 401, "Authentication required", {})
                  ELSE Respond(r, req, 401, "Citizen not found", {})
    /\ UNCHANGED <<now, Citizen, VotingSession, CitizenHasVoted, Result>>
    /\ UNCHANGED auth_vars
    /\ UNCHANGED aux_vars

\* lines 186-214: an authenticated request; the serializer validates the body
CastVoteView_post_validate(r) ==
    /\ request[r].pc = "idle"
    /\ \E cid \in SessionCitizenIdInputs, vs \in VotingSessionIdInputs, o \in OptionIdInputs :
         LET req == [request[r] EXCEPT !.citizen_id = cid, !.voting_session_id = vs,
                                       !.option_id = o]
         IN  /\ cid # None /\ cid \in DOMAIN Citizen
             /\ IF serializer_errors(cid, vs, o) # {}
                  THEN Respond(r, req, 400, "Invalid vote data", serializer_errors(cid, vs, o))
                  ELSE request' = [request EXCEPT ![r] =
                         [req EXCEPT !.pc = "validated",
                                     !.citizen_municipality = Citizen[cid].municipality]]
    /\ UNCHANGED <<now, Citizen, VotingSession, CitizenHasVoted, Result>>
    /\ UNCHANGED auth_vars
    /\ UNCHANGED aux_vars

\* the municipality check comparing the session's municipality with itself
municipality_mismatch_never(citizen_municipality, voting_session_id) ==
    VotingSession[voting_session_id].municipality
        # VotingSession[voting_session_id].municipality

\* lines 228-239: the citizen's municipality is the session's
municipality_mismatch(citizen_municipality, voting_session_id) ==
    citizen_municipality # VotingSession[voting_session_id].municipality

\* lines 216-239: the session and the option are read again, then the municipality check
CastVoteView_post_fetch(r) ==
    /\ request[r].pc = "validated"
    /\ LET req == request[r]
       IN  IF req.voting_session_id \notin DOMAIN VotingSession
              \/ req.option_id \notin DOMAIN Option
             THEN Respond(r, req, 404, "Invalid vote", {})
           ELSE IF municipality_mismatch(req.citizen_municipality, req.voting_session_id)
             THEN Respond(r, req, 403, "Access denied", {})
           ELSE request' = [request EXCEPT ![r].pc = "fetched"]
    /\ UNCHANGED <<now, Citizen, VotingSession, CitizenHasVoted, Result>>
    /\ UNCHANGED auth_vars
    /\ UNCHANGED aux_vars

\* objects.create of the voter ledger (lines 257-261): Model.__init__, which raises
\* TypeError for a keyword that is no field, then the INSERT, which raises
\* IntegrityError for a row that breaks unique_together
CitizenHasVoted_objects_create(table, row) ==
    IF raises_TypeError(CitizenHasVoted_fields, CitizenHasVoted_create_kwargs)
      THEN [raised |-> "TypeError", table |-> table]
    ELSE IF ~unique_together(table \cup {row})
      THEN [raised |-> "IntegrityError", table |-> table]
    ELSE [raised |-> "", table |-> table \cup {row}]

\* objects.create of the tally (lines 264-268)
Result_objects_create(table, row) ==
    IF raises_TypeError(Result_fields, Result_create_kwargs)
      THEN [raised |-> "TypeError", table |-> table]
    ELSE [raised |-> "", table |-> table \cup {row}]

\* with transaction.atomic() (line 242): a block left by an exception is rolled back
transaction_atomic(before, after, raised) == IF raised THEN before ELSE after

\* lines 241-291: the atomic block and the response.  An exception is answered 500
\* (lines 286-291).
CastVoteView_post_atomic(r) ==
    /\ request[r].pc = "fetched"
    /\ LET req == request[r]
           citizen_vote_record ==
               [id |-> NextId(CitizenHasVoted), citizen |-> req.citizen_id,
                voting_session |-> req.voting_session_id, timestamp |-> now]
           voted == CitizenHasVoted_objects_create(CitizenHasVoted, citizen_vote_record)
       IN  IF has_voted(req.citizen_id, req.voting_session_id)
             THEN /\ Respond(r, req, 400, "Already voted", {})
                  /\ UNCHANGED <<CitizenHasVoted, Result>>
           ELSE \E session_hash \in SessionHashes :
                  LET result ==
                          IF voted.raised # "" THEN [raised |-> voted.raised, table |-> Result]
                          ELSE Result_objects_create(Result,
                                 [id |-> NextId(Result),
                                  voting_session |-> req.voting_session_id,
                                  option |-> req.option_id, timestamp |-> now,
                                  session_hash |-> session_hash])
                      raised == result.raised # ""
                  IN  /\ CitizenHasVoted' =
                             transaction_atomic(CitizenHasVoted, voted.table, raised)
                      /\ Result' = transaction_atomic(Result, result.table, raised)
                      /\ IF raised
                           THEN Respond(r, req, 500, "Failed to cast vote", {})
                           ELSE Respond(r, req, 201, "Vote recorded successfully", {})
    /\ UNCHANGED <<now, Citizen, VotingSession>>
    /\ UNCHANGED auth_vars
    /\ UNCHANGED aux_vars

(***************************************************************************)
(* The environment: the clock, and the administrator, who edits is_active  *)
(* of a session (VotingSessionAdmin, voting/admin.py).                     *)
(***************************************************************************)
\* the sessions the administrator edits in one behaviour
AdminEditedSessions == {1}

Tick ==
    /\ now < MaxTime
    /\ now' = now + 1
    /\ UNCHANGED <<Citizen, VotingSession, CitizenHasVoted, Result, request>>
    /\ UNCHANGED auth_vars
    /\ UNCHANGED aux_vars

VotingSessionAdmin_save(s) ==
    /\ VotingSession' = [VotingSession EXCEPT ![s].is_active = ~@]
    /\ UNCHANGED <<now, Citizen, CitizenHasVoted, Result, request>>
    /\ UNCHANGED auth_vars
    /\ UNCHANGED aux_vars

(***************************************************************************)
(* SPIDLoginView.get (authentication/views.py, lines 24-118): leg 1.       *)
(***************************************************************************)
\* the values of the query parameter voting_session_id; None is its absence
LoginInputs == {None} \cup VotingSessionIdInputs

\* lines 72-82: the state leg 1 encodes
login_state(voting_session_id, timestamp, nonce) ==
    urlsafe_b64encode(json_dumps(voting_session_id, timestamp, nonce))

\* lines 46-67 answered without looking at is_open
login_response_without_is_open(voting_session_id, nonce) ==
    IF voting_session_id = None
    THEN LoginResponse(400, "voting_session_id is required", NoState, "")
    ELSE IF voting_session_id \notin DOMAIN VotingSession
    THEN LoginResponse(404, "Voting session not found", NoState, "")
    ELSE LoginResponse(200, "", login_state(voting_session_id, now, nonce),
                       ipa_code(VotingSession[voting_session_id].municipality))

\* lines 44-111
login_response(voting_session_id, nonce) ==
    IF voting_session_id = None
    THEN LoginResponse(400, "voting_session_id is required", NoState, "")
    ELSE IF voting_session_id \notin DOMAIN VotingSession
    THEN LoginResponse(404, "Voting session not found", NoState, "")
    ELSE IF ~is_open(voting_session_id)
    THEN LoginResponse(400, "Voting is closed", NoState, "")
    ELSE LoginResponse(200, "", login_state(voting_session_id, now, nonce),
                       ipa_code(VotingSession[voting_session_id].municipality))

\* leg 1 keeping the voting session it was asked for in the session data of a client
SPIDLoginView_get_storing_session ==
    /\ login.pc = "idle"
    /\ \E voting_session_id \in LoginInputs, nonce \in Nonces :
         /\ login' = [pc |-> "done", voting_session_id |-> voting_session_id,
                      response |-> login_response(voting_session_id, nonce)]
         /\ session' = [session EXCEPT ![1].voting_session_id = voting_session_id]
    /\ UNCHANGED <<now, Citizen, VotingSession, CitizenHasVoted, Result, request>>
    /\ UNCHANGED <<callback, jwks_cache, jwks_provider, metadata_cache>>
    /\ UNCHANGED aux_vars

SPIDLoginView_get ==
    /\ login.pc = "idle"
    /\ \E voting_session_id \in LoginInputs, nonce \in Nonces :
         login' = [pc |-> "done", voting_session_id |-> voting_session_id,
                   response |-> login_response(voting_session_id, nonce)]
    /\ UNCHANGED <<now, Citizen, VotingSession, CitizenHasVoted, Result, request>>
    /\ UNCHANGED <<callback, session, jwks_cache, jwks_provider, metadata_cache>>
    /\ UNCHANGED aux_vars

(***************************************************************************)
(* SPIDCallbackView.post (authentication/views.py, lines 128-300).         *)
(***************************************************************************)
\* the state values leg 1 has produced
IssuedStates == IF login.response.status = 200 THEN {login.response.state} ELSE {}

\* the state values a callback presents
CallbackStates == {NoState} \cup ForgedStates \cup IssuedStates

CallbackRespond(r, cb, status, error, detail) ==
    callback' = [callback EXCEPT ![r] =
                   [cb EXCEPT !.pc = "done",
                              !.response = [status |-> status, error |-> error,
                                            detail |-> detail]]]

\* lines 288-300: ValueError is answered 400, every other exception 500
CallbackRespondRaised(r, cb, raised) ==
    IF raised.exception = "ValueError"
    THEN CallbackRespond(r, cb, 400, "Invalid SPID response", raised.detail)
    ELSE CallbackRespond(r, cb, 500, "Authentication failed", raised.detail)

\* lines 143-208: the state, the voting session, the token and the look-up of
\* the citizen.  The token is not read when the state or the session is refused,
\* and the key set not when the token is missing or names no key.  The
\* provider answers every request of this handler.
SPIDCallbackView_post_verify(r) ==
    /\ callback[r].pc = "idle"
    /\ \E state \in CallbackStates :
         LET voting_session_id == decode_state(state)
             cb0 == [callback[r] EXCEPT !.state = state]
         IN  IF state = NoState
               THEN /\ CallbackRespond(r, cb0, 400, "Invalid callback",
                                       "State parameter is required")
                    /\ UNCHANGED <<jwks_cache, metadata_cache>>
             ELSE IF voting_session_id = None
               THEN /\ CallbackRespond(r, cb0, 400, "Invalid state parameter",
                                       "Could not decode state")
                    /\ UNCHANGED <<jwks_cache, metadata_cache>>
             ELSE IF voting_session_id \notin DOMAIN VotingSession
               THEN /\ CallbackRespond(r, cb0, 404, "Voting session not found", "")
                    /\ UNCHANGED <<jwks_cache, metadata_cache>>
             ELSE \E token \in TokenInputs :
                    LET cb == [cb0 EXCEPT !.voting_session_id = voting_session_id,
                                          !.token = token]
                        jwks == verify_jwt_signature_fetch(token, jwks_cache,
                                    metadata_cache, jwks_provider, Urls, now)
                        raised == IF jwks.raised # NotRaised THEN jwks.raised
                                  ELSE decode_spid_token(token, jwks.keys, now)
                        fiscal_code == str_upper(strip(token.fiscalNumber))
                    IN  IF extract_token_from_callback(token) # NotRaised
                          THEN /\ CallbackRespondRaised(r, cb,
                                      extract_token_from_callback(token))
                               /\ UNCHANGED <<jwks_cache, metadata_cache>>
                        ELSE /\ jwks_cache' = jwks.cache
                             /\ metadata_cache' = jwks.metadata_cache
                             /\ IF raised # NotRaised
                                  THEN CallbackRespondRaised(r, cb, raised)
                                  ELSE callback' = [callback EXCEPT ![r] =
                                         [cb EXCEPT
                                            !.pc = "found",
                                            !.fiscal_code = fiscal_code,
                                            !.citizen = Citizen_objects_filter_first(
                                                Citizen, hash_fiscal_code(fiscal_code))]]
    /\ UNCHANGED <<now, Citizen, VotingSession, CitizenHasVoted, Result, request>>
    /\ UNCHANGED <<login, session, jwks_provider>>
    /\ UNCHANGED aux_vars

\* the comparison of line 212 left out
ipa_code_mismatch_never(citizen_municipality, municipality) == FALSE

\* line 212: citizen.municipality.ipa_code != ipa_code
ipa_code_mismatch(citizen_municipality, municipality) ==
    ipa_code(citizen_municipality) # ipa_code(municipality)

\* Model.save(update_fields=...): ValueError for a name that is no field, before
\* any UPDATE; the fields the callback names hold the values they were loaded with
Citizen_save(table, citizen, update_fields) ==
    IF update_fields \ Citizen_fields # {}
    THEN [raised |-> Raised("ValueError", "The following fields do not exist in this model"),
          table |-> table]
    ELSE [raised |-> NotRaised, table |-> table]

NextCitizenId(table) ==
    (CHOOSE i \in DOMAIN table : \A c \in DOMAIN table : c <= i) + 1

\* update_or_create in the place of create: the row of the fiscal code is
\* written with the municipality of this callback
Citizen_objects_update_or_create(table, row) ==
    LET c == Citizen_objects_filter_first(table, row.fiscal_code_hash)
        id == IF c = None THEN NextCitizenId(table) ELSE c
    IN  [raised |-> NotRaised, id |-> id,
         table |-> (id :> row) @@ table]

\* create with the keywords checked after the INSERT: the row stays, TypeError is raised
Citizen_objects_create_insert_first(table, row) ==
    [raised |-> Raised("TypeError", "Citizen() got unexpected keyword arguments"),
     id |-> None, table |-> (NextCitizenId(table) :> row) @@ table]

\* Citizen.objects.create (lines 244-247): Model.__init__, which raises TypeError
\* for a keyword that is no field, then the INSERT, which raises IntegrityError
\* for a fiscal_code_hash the table holds
Citizen_objects_create(table, row) ==
    LET id == NextCitizenId(table)
        inserted == (id :> row) @@ table
    IN  IF raises_TypeError(Citizen_fields, Citizen_create_kwargs)
          THEN [raised |-> Raised("TypeError", "Citizen() got unexpected keyword arguments"),
                id |-> None, table |-> table]
        ELSE IF ~unique_fiscal_code_hash(inserted)
          THEN [raised |-> Raised("IntegrityError", "UNIQUE constraint failed"),
                id |-> None, table |-> table]
        ELSE [raised |-> NotRaised, id |-> id, table |-> inserted]

\* lines 252-286: the session data and the 200 response
Authenticated(r, cb, citizen_id) ==
    /\ session' = [session EXCEPT ![r] =
                     [citizen_id |-> citizen_id,
                      municipality_id |-> VotingSession[cb.voting_session_id].municipality,
                      voting_session_id |-> cb.voting_session_id,
                      authenticated_via |-> "SPID"]]
    /\ CallbackRespond(r, cb, 200, "", "Authentication successful")

\* lines 210-300: the municipality check and the touch of an existing citizen,
\* or the creation of a new one; then the session data and the response
SPIDCallbackView_post_finish(r) ==
    /\ callback[r].pc = "found"
    /\ LET cb == callback[r]
           municipality == VotingSession[cb.voting_session_id].municipality
           saved == Citizen_save(Citizen, cb.citizen, Citizen_save_update_fields)
           created == Citizen_objects_create(Citizen,
                          [municipality |-> municipality,
                           fiscal_code_hash |-> hash_fiscal_code(cb.fiscal_code)])
       IN  IF cb.citizen # None
             THEN IF ipa_code_mismatch(Citizen[cb.citizen].municipality, municipality)
                    THEN /\ CallbackRespond(r, cb, 403, "Access denied",
                                            "Municipality mismatch")
                         /\ UNCHANGED <<Citizen, session>>
                  ELSE /\ Citizen' = saved.table
                       /\ IF saved.raised # NotRaised
                            THEN /\ CallbackRespondRaised(r, cb, saved.raised)
                                 /\ UNCHANGED session
                            ELSE Authenticated(r, cb, cb.citizen)
           ELSE /\ Citizen' = created.table
                /\ IF created.raised # NotRaised
                     THEN /\ CallbackRespondRaised(r, cb, created.raised)
                          /\ UNCHANGED session
                     ELSE Authenticated(r, cb, created.id)
    /\ UNCHANGED <<now, VotingSession, CitizenHasVoted, Result, request>>
    /\ UNCHANGED <<login, jwks_cache, jwks_provider, metadata_cache>>
    /\ UNCHANGED aux_vars

\* the provider rotates a new signing key in: it publishes k2 beside k1
Provider_rotate_key ==
    /\ jwks_provider = {"k1"}
    /\ jwks_provider' = {"k1", "k2"}
    /\ UNCHANGED <<now, Citizen, VotingSession, CitizenHasVoted, Result, request>>
    /\ UNCHANGED <<login, callback, session, jwks_cache, metadata_cache>>
    /\ UNCHANGED aux_vars

Next ==
    \/ \E r \in Requests : CastVoteView_post_unauthorized(r)
    \/ \E r \in Requests : CastVoteView_post_validate(r)
    \/ \E r \in Requests : CastVoteView_post_fetch(r)
    \/ \E r \in Requests : CastVoteView_post_atomic(r)
    \/ Tick
    \/ \E s \in AdminEditedSessions : VotingSessionAdmin_save(s)

Spec == Init /\ [][Next]_vars

NextAuth ==
    \/ SPIDLoginView_get
    \/ \E r \in Requests : SPIDCallbackView_post_verify(r)
    \/ \E r \in Requests : SPIDCallbackView_post_finish(r)
    \/ Provider_rotate_key
    \/ Tick
    \/ \E s \in AdminEditedSessions : VotingSessionAdmin_save(s)

SpecAuth == InitAuth /\ [][NextAuth]_vars

(***************************************************************************)
(* The calls of get_oidc_metadata and get_jwks (oidc_utils.py), made by    *)
(* get_signing_key, verify_jwt_signature and test_oidc_connection, with a  *)
(* provider that may fail to answer.                                       *)
(***************************************************************************)
OidcCall(function, result) ==
    [function |-> function, calls |-> oidc_call.calls + 1,
     raised |-> result.raised, requests |-> result.requests]

Call_get_oidc_metadata ==
    /\ oidc_call.calls < MaxCalls
    /\ \E reachable \in SUBSET Urls :
         LET result == get_oidc_metadata(metadata_cache, reachable, now)
         IN  /\ metadata_cache' = result.cache
             /\ oidc_call' = OidcCall("get_oidc_metadata", result)
    /\ UNCHANGED <<now, Citizen, VotingSession, CitizenHasVoted, Result, request>>
    /\ UNCHANGED <<login, callback, session, jwks_cache, jwks_provider>>
    /\ UNCHANGED <<crypto, listing, locks, admin>>

Call_get_jwks ==
    /\ oidc_call.calls < MaxCalls
    /\ \E reachable \in SUBSET Urls :
         LET result == get_jwks(jwks_cache, metadata_cache, jwks_provider, reachable, now)
         IN  /\ jwks_cache' = result.cache
             /\ metadata_cache' = result.metadata_cache
             /\ oidc_call' = OidcCall("get_jwks", result)
    /\ UNCHANGED <<now, Citizen, VotingSession, CitizenHasVoted, Result, request>>
    /\ UNCHANGED <<login, callback, session, jwks_provider>>
    /\ UNCHANGED <<crypto, listing, locks, admin>>

NextOidc ==
    \/ Call_get_oidc_metadata
    \/ Call_get_jwks
    \/ Provider_rotate_key
    \/ Tick

SpecOidc == InitAuth /\ [][NextOidc]_vars

(***************************************************************************)
(* encrypt_data and decrypt_data (authentication/crypto_utils.py, lines    *)
(* 43-86).  Strings are character sequences; a value that may be None is a *)
(* record whose field none tells whether it is.  Fernet is modelled as a   *)
(* cipher that shifts each character of the alphabet by the key and the    *)
(* initialisation vector of the token, which the token carries.            *)
(***************************************************************************)
Alphabet == <<" ", "B", "D", "N", "R", "S", "V", "b", "d", "n", "r", "s", "v">>
ord(ch) == CHOOSE i \in 1..Len(Alphabet) : Alphabet[i] = ch
chr(i) == Alphabet[(i % Len(Alphabet)) + 1]

\* _get_fernet_key, lines 19-40: the key derived from settings.ENCRYPTION_KEY
FernetKey == 5

\* the initialisation vectors os.urandom gives; a vector is not given twice
IVs == 1..NumIVs
os_urandom(used) == IVs \ used

NoneStr == [none |-> TRUE, str |-> <<>>]
Str(str) == [none |-> FALSE, str |-> str]
NoneToken == [none |-> TRUE, iv |-> 0, ciphertext |-> <<>>]

\* Fernet.encrypt and Fernet.decrypt
Fernet_encrypt(plaintext, iv) ==
    [none |-> FALSE, iv |-> iv,
     ciphertext |-> [i \in 1..Len(plaintext) |->
                        chr(ord(plaintext[i]) - 1 + FernetKey + iv)]]

Fernet_decrypt(token) ==
    [i \in 1..Len(token.ciphertext) |->
        chr(ord(token.ciphertext[i]) - 1 + 2 * Len(Alphabet) - FernetKey - token.iv)]

\* lines 43-63: None for data that is empty
encrypt_data(data, iv) ==
    IF data = <<>> THEN NoneToken ELSE Fernet_encrypt(data, iv)

\* lines 66-86: None for a token that is None or empty
decrypt_data(encrypted_data) ==
    IF encrypted_data.none \/ encrypted_data.ciphertext = <<>>
    THEN NoneStr
    ELSE Str(Fernet_decrypt(encrypted_data))

\* the strings that are encrypted
CryptoStrings == {<<>>, RSS, VRD, BNC, RSS_variant, <<"R">>, <<"N", " ", "v">>}

\* the vectors of the tokens made so far
UsedIVs == {crypto.encrypted[i].iv : i \in 1..Len(crypto.encrypted)}

\* encrypt_data(data) is called, as test_encryption and encrypt_citizen_data do
Call_encrypt_data ==
    /\ Len(crypto.encrypted) < MaxEncryptions
    /\ \E iv \in os_urandom(UsedIVs) :
         crypto' = [crypto EXCEPT !.encrypted = Append(@, encrypt_data(crypto.data, iv))]
    /\ UNCHANGED <<now, Citizen, VotingSession, CitizenHasVoted, Result, request>>
    /\ UNCHANGED auth_vars
    /\ UNCHANGED <<oidc_call, listing, locks, admin>>

\* decrypt_data is called with the next token
Call_decrypt_data ==
    /\ Len(crypto.decrypted) < Len(crypto.encrypted)
    /\ crypto' = [crypto EXCEPT !.decrypted =
                    Append(@, decrypt_data(crypto.encrypted[Len(crypto.decrypted) + 1]))]
    /\ UNCHANGED <<now, Citizen, VotingSession, CitizenHasVoted, Result, request>>
    /\ UNCHANGED auth_vars
    /\ UNCHANGED <<oidc_call, listing, locks, admin>>

InitCrypto ==
    /\ InitHandshake
    /\ now = 0
    /\ Citizen = InitCitizen
    /\ VotingSession = InitVotingSession
    /\ CitizenHasVoted = {}
    /\ Result = {}
    /\ request = [r \in Requests |-> IdleRequest]
    /\ oidc_call = IdleOidcCall
    /\ listing = NoListing
    /\ locks = [r \in Requests |-> {}]
    /\ admin = NoAdminRequest
    /\ crypto \in {[IdleCrypto EXCEPT !.data = data] : data \in CryptoStrings}

NextCrypto == Call_encrypt_data \/ Call_decrypt_data

SpecCrypto == InitCrypto /\ [][NextCrypto]_vars

(***************************************************************************)
(* The read-only endpoints voting/urls.py routes: VotingSessionListView    *)
(* (voting/views.py, lines 27-69) with VotingSessionSerializer and         *)
(* OptionSerializer (voting/serializers.py, lines 27-101), and             *)
(* VotingResultsView (views.py, lines 303-326).  A count a serializer      *)
(* leaves out is None.                                                     *)
(***************************************************************************)
NoneCount == [none |-> TRUE, count |-> 0]
Count(n) == [none |-> FALSE, count |-> n]

\* Option.get_vote_count (voting/models.py, lines 105-107): self.results.count()
Option_get_vote_count(o) == Cardinality({y \in Result : y.option = o})

\* obj.voters.count()
VotingSession_voters_count(s) == Cardinality({x \in CitizenHasVoted : x.voting_session = s})

\* get_vote_count without the condition of line 56, as VotingResultSerializer computes it
OptionSerializer_get_vote_count_unguarded(o) == Count(Option_get_vote_count(o))

\* serializers.py, lines 42-59
OptionSerializer_get_vote_count(o) ==
    LET voting_session == Option[o].voting_session_id
    IN  IF VotingSession[voting_session].results_public \/ ~is_open(voting_session)
        THEN Count(Option_get_vote_count(o))
        ELSE NoneCount

\* serializers.py, lines 94-101
VotingSessionSerializer_get_total_voters(s) ==
    IF VotingSession[s].results_public \/ ~is_open(s)
    THEN Count(VotingSession_voters_count(s))
    ELSE NoneCount

\* VotingSessionSerializer(...).data for one session: the fields that vary here
VotingSessionSerializer_data(s) ==
    [id |-> s,
     is_active |-> VotingSession[s].is_active,
     is_open |-> is_open(s),
     results_public |-> VotingSession[s].results_public,
     options |-> {[id |-> o, vote_count |-> OptionSerializer_get_vote_count(o)] :
                    o \in {p \in DOMAIN Option : Option[p].voting_session_id = s}},
     total_voters |-> VotingSessionSerializer_get_total_voters(s)]

ListingResponse(status, message, sessions) ==
    [served |-> listing.served + 1, status |-> status, message |-> message,
     sessions |-> sessions, voting_session |-> None, options |-> <<>>,
     results |-> <<>>]

\* views.py, lines 38-62: the active sessions that are open, serialized
VotingSessionListView_get ==
    /\ listing.served < MaxListings
    /\ LET open_sessions == {s \in DOMAIN VotingSession :
                               VotingSession[s].is_active /\ is_open(s)}
       IN  listing' = IF open_sessions = {}
                      THEN ListingResponse(200, "No active voting sessions", {})
                      ELSE ListingResponse(200, "",
                              {VotingSessionSerializer_data(s) : s \in open_sessions})
    /\ UNCHANGED <<now, Citizen, VotingSession, CitizenHasVoted, Result, request>>
    /\ UNCHANGED auth_vars
    /\ UNCHANGED <<oidc_call, crypto, locks, admin>>

\* views.py, lines 317-326: not implemented, whatever the session id
VotingResultsView_get ==
    /\ listing.served < MaxListings
    /\ \E session_id \in VotingSessionIdInputs :
         listing' = ListingResponse(501,
                       "Voting results endpoint - TODO: implement later", {})
    /\ UNCHANGED <<now, Citizen, VotingSession, CitizenHasVoted, Result, request>>
    /\ UNCHANGED auth_vars
    /\ UNCHANGED <<oidc_call, crypto, locks, admin>>

\* VotingSessionAdmin (voting/admin.py): an administrator publishes or hides the results
VotingSessionAdmin_save_results_public(s) ==
    /\ VotingSession' = [VotingSession EXCEPT ![s].results_public = ~@]
    /\ UNCHANGED <<now, Citizen, CitizenHasVoted, Result, request>>
    /\ UNCHANGED auth_vars
    /\ UNCHANGED aux_vars

NextList ==
    \/ VotingSessionListView_get
    \/ VotingResultsView_get
    \/ Tick
    \/ \E s \in AdminEditedSessions : VotingSessionAdmin_save(s)
    \/ \E s \in AdminEditedSessions : VotingSessionAdmin_save_results_public(s)

SpecList == Init /\ [][NextList]_vars

(***************************************************************************)
(* The atomic block of CastVoteView.post (voting/views.py, lines 241-291)  *)
(* step by step: the SELECT ... FOR UPDATE, which waits for the rows       *)
(* another open transaction holds, then the inserts and the commit, which  *)
(* releases the rows.  The inserts wait for nothing: create raises before  *)
(* any INSERT is sent.                                                     *)
(***************************************************************************)
\* select_for_update locking the whole table in the place of the rows it filters
select_for_update_table(citizen, voting_session) ==
    {x.id : x \in CitizenHasVoted}

\* lines 243-246, select_for_update().filter(citizen=..., voting_session=...):
\* the rows the query returns are the rows it locks
select_for_update(citizen, voting_session) ==
    {x.id : x \in {y \in CitizenHasVoted :
                     y.citizen = citizen /\ y.voting_session = voting_session}}

\* lines 241-246: the transaction begins and reads the voter ledger FOR UPDATE
CastVoteView_post_select_for_update(r) ==
    /\ request[r].pc = "fetched"
    /\ LET rows == select_for_update(request[r].citizen_id, request[r].voting_session_id)
       IN  /\ \A q \in Requests \ {r} : locks[q] \cap rows = {}
           /\ locks' = [locks EXCEPT ![r] = rows]
    /\ request' = [request EXCEPT ![r].pc = "in_transaction"]
    /\ UNCHANGED <<now, Citizen, VotingSession, CitizenHasVoted, Result>>
    /\ UNCHANGED auth_vars
    /\ UNCHANGED <<oidc_call, crypto, listing, admin>>

\* the transaction begun again after an exception, in place of the 500 response
CastVoteView_post_commit_retrying(r) ==
    /\ request[r].pc = "in_transaction"
    /\ request' = [request EXCEPT ![r].pc = "fetched"]
    /\ locks' = [locks EXCEPT ![r] = {}]
    /\ UNCHANGED <<now, Citizen, VotingSession, CitizenHasVoted, Result>>
    /\ UNCHANGED auth_vars
    /\ UNCHANGED <<oidc_call, crypto, listing, admin>>

\* lines 248-291: the answer to exists(), the inserts, the end of the
\* transaction and the response
CastVoteView_post_commit(r) ==
    /\ request[r].pc = "in_transaction"
    /\ LET req == request[r]
           citizen_vote_record ==
               [id |-> NextId(CitizenHasVoted), citizen |-> req.citizen_id,
                voting_session |-> req.voting_session_id, timestamp |-> now]
           voted == CitizenHasVoted_objects_create(CitizenHasVoted, citizen_vote_record)
       IN  IF locks[r] # {}
             THEN /\ Respond(r, req, 400, "Already voted", {})
                  /\ UNCHANGED <<CitizenHasVoted, Result>>
           ELSE \E session_hash \in SessionHashes :
                  LET result ==
                          IF voted.raised # "" THEN [raised |-> voted.raised, table |-> Result]
                          ELSE Result_objects_create(Result,
                                 [id |-> NextId(Result),
                                  voting_session |-> req.voting_session_id,
                                  option |-> req.option_id, timestamp |-> now,
                                  session_hash |-> session_hash])
                      raised == result.raised # ""
                  IN  /\ CitizenHasVoted' =
                             transaction_atomic(CitizenHasVoted, voted.table, raised)
                      /\ Result' = transaction_atomic(Result, result.table, raised)
                      /\ IF raised
                           THEN Respond(r, req, 500, "Failed to cast vote", {})
                           ELSE Respond(r, req, 201, "Vote recorded successfully", {})
    /\ locks' = [locks EXCEPT ![r] = {}]
    /\ UNCHANGED <<now, Citizen, VotingSession>>
    /\ UNCHANGED auth_vars
    /\ UNCHANGED <<oidc_call, crypto, listing, admin>>

NextLocks ==
    \/ \E r \in Requests : CastVoteView_post_unauthorized(r)
    \/ \E r \in Requests : CastVoteView_post_validate(r)
    \/ \E r \in Requests : CastVoteView_post_fetch(r)
    \/ \E r \in Requests : CastVoteView_post_select_for_update(r)
    \/ \E r \in Requests : CastVoteView_post_commit(r)
    \/ Tick

SpecLocks == Init /\ [][NextLocks]_vars

\* the cast-vote requests with every request that has arrived scheduled fairly:
\* a request handler that can take its next step takes it
SpecLocksFair ==
    /\ SpecLocks
    /\ \A r \in Requests :
          /\ WF_vars(CastVoteView_post_fetch(r))
          /\ WF_vars(CastVoteView_post_select_for_update(r))
          /\ WF_vars(CastVoteView_post_commit(r))

(***************************************************************************)
(* VotingResultSerializer.get_results (voting/serializers.py, lines        *)
(* 221-243), which no view calls: applied to a voting session and its      *)
(* options in the order options.all() gives them.  A percentage is held in *)
(* hundredths.                                                             *)
(***************************************************************************)
\* round(vote_count / total_votes * 100, 2): the nearest hundredth, a tie to the even one
round2(vote_count, total_votes) ==
    LET q == (10000 * vote_count) \div total_votes
        rem == (10000 * vote_count) % total_votes
    IN  IF 2 * rem > total_votes \/ (2 * rem = total_votes /\ q % 2 = 1) THEN q + 1 ELSE q

\* results.sort without reverse=True
RECURSIVE list_sort_ascending(_)
list_sort_ascending(results) ==
    IF results = <<>> THEN <<>>
    ELSE LET init == list_sort_ascending(SubSeq(results, 1, Len(results) - 1))
             x == results[Len(results)]
             k == Cardinality({i \in 1..Len(init) : init[i].vote_count <= x.vote_count})
         IN  SubSeq(init, 1, k) \o <<x>> \o SubSeq(init, k + 1, Len(init))

\* line 241, results.sort(key=vote_count, reverse=True): descending, and stable,
\* an entry goes behind the entries before it that have at least its count
RECURSIVE list_sort(_)
list_sort(results) ==
    IF results = <<>> THEN <<>>
    ELSE LET init == list_sort(SubSeq(results, 1, Len(results) - 1))
             x == results[Len(results)]
             k == Cardinality({i \in 1..Len(init) : init[i].vote_count >= x.vote_count})
         IN  SubSeq(init, 1, k) \o <<x>> \o SubSeq(init, k + 1, Len(init))

\* lines 225-243
get_results(obj, options) ==
    LET total_votes == Cardinality({y \in Result : y.voting_session = obj})
        entry(option) ==
            [option_id |-> option,
             vote_count |-> Option_get_vote_count(option),
             percentage |-> IF total_votes > 0
                            THEN round2(Option_get_vote_count(option), total_votes)
                            ELSE 0]
    IN  list_sort([i \in 1..Len(options) |-> entry(options[i])])

\* obj.options.all(): the options of the session, in an order of the database
OptionOrders(obj) ==
    LET options == {o \in DOMAIN Option : Option[o].voting_session_id = obj}
    IN  {order \in [1..Cardinality(options) -> options] :
            \A i, j \in 1..Cardinality(options) : order[i] = order[j] => i = j}

\* the serializer is given a voting session
VotingResultSerializer_get_results ==
    /\ listing.served < MaxListings
    /\ \E obj \in DOMAIN VotingSession :
         \E options \in OptionOrders(obj) :
            listing' = [ListingResponse(200, "", {}) EXCEPT
                           !.voting_session = obj, !.options = options,
                           !.results = get_results(obj, options)]
    /\ UNCHANGED <<now, Citizen, VotingSession, CitizenHasVoted, Result, request>>
    /\ UNCHANGED auth_vars
    /\ UNCHANGED <<oidc_call, crypto, locks, admin>>

\* the tallies the function is applied to
InitResults ==
    /\ InitHandshake
    /\ InitAux
    /\ now = 0
    /\ Citizen = InitCitizen
    /\ VotingSession = InitVotingSession
    /\ CitizenHasVoted = {}
    /\ Result \in Tables(ResultRows, MaxTallyRows)
    /\ PrimaryKey(Result)
    /\ ForeignKeys(CitizenHasVoted, Result)
    /\ request = [r \in Requests |-> IdleRequest]

NextResults == VotingResultSerializer_get_results

SpecResults == InitResults /\ [][NextResults]_vars

(***************************************************************************)
(* The admin pages of the two ledgers (voting/admin.py, lines 105-184).    *)
(* A user of the admin site is a staff member, a superuser or not.  The    *)
(* add, change and delete views of a ModelAdmin refuse with 403 when the   *)
(* has_..._permission method of the class returns False, and redirect      *)
(* (302) after the write otherwise.                                        *)
(***************************************************************************)
AdminUsers == [is_staff : {TRUE}, is_superuser : BOOLEAN]

\* has_delete_permission returning True for every user of the admin site
has_delete_permission_is_staff(user) == user.is_staff

\* admin.py, lines 133-135
CitizenHasVotedAdmin_has_add_permission(user) == FALSE

\* lines 137-139
CitizenHasVotedAdmin_has_change_permission(user) == FALSE

\* lines 141-143
CitizenHasVotedAdmin_has_delete_permission(user) == user.is_superuser

\* lines 174-176
ResultAdmin_has_add_permission(user) == FALSE

\* lines 178-180
ResultAdmin_has_change_permission(user) == FALSE

\* lines 182-184
ResultAdmin_has_delete_permission(user) == user.is_superuser

AdminResponse(model, view, user, status, obj) ==
    [served |-> admin.served + 1, model |-> model, view |-> view,
     is_superuser |-> user.is_superuser, status |-> status, obj |-> obj]

\* what a request to the admin pages leaves alone beside the ledger it is about
AdminUnchanged ==
    /\ UNCHANGED <<now, Citizen, VotingSession, request>>
    /\ UNCHANGED auth_vars
    /\ UNCHANGED <<oidc_call, crypto, listing, locks>>

\* POST to the add page of CitizenHasVoted
CitizenHasVotedAdmin_add_view(user) ==
    /\ admin.served < MaxAdminRequests
    /\ \E row \in CitizenHasVotedRows :
         IF CitizenHasVotedAdmin_has_add_permission(user)
         THEN /\ CitizenHasVoted' = CitizenHasVoted
                                      \cup {[id |-> NextId(CitizenHasVoted)] @@ row}
              /\ unique_together(CitizenHasVoted')
              /\ admin' = AdminResponse("CitizenHasVoted", "add", user, 302,
                                     NoObject)
         ELSE /\ UNCHANGED CitizenHasVoted
              /\ admin' = AdminResponse("CitizenHasVoted", "add", user, 403,
                                     NoObject)
    /\ UNCHANGED Result
    /\ AdminUnchanged

\* POST to the change page of a CitizenHasVoted row
CitizenHasVotedAdmin_change_view(user) ==
    /\ admin.served < MaxAdminRequests
    /\ \E obj \in CitizenHasVoted :
         \E row \in CitizenHasVotedRows :
            IF CitizenHasVotedAdmin_has_change_permission(user)
            THEN /\ CitizenHasVoted' = (CitizenHasVoted \ {obj})
                                         \cup {[id |-> obj.id] @@ row}
                 /\ unique_together(CitizenHasVoted')
                 /\ admin' = AdminResponse("CitizenHasVoted", "change", user, 302,
                                     NoObject)
            ELSE /\ UNCHANGED CitizenHasVoted
                 /\ admin' = AdminResponse("CitizenHasVoted", "change", user, 403,
                                     NoObject)
    /\ UNCHANGED Result
    /\ AdminUnchanged

\* POST to the delete page of a CitizenHasVoted row
CitizenHasVotedAdmin_delete_view(user) ==
    /\ admin.served < MaxAdminRequests
    /\ \E obj \in CitizenHasVoted :
         IF CitizenHasVotedAdmin_has_delete_permission(user)
         THEN /\ CitizenHasVoted' = CitizenHasVoted \ {obj}
              /\ admin' = AdminResponse("CitizenHasVoted", "delete", user, 302,
                                   [citizen |-> obj.citizen,
                                    voting_session |-> obj.voting_session])
         ELSE /\ UNCHANGED CitizenHasVoted
              /\ admin' = AdminResponse("CitizenHasVoted", "delete", user, 403,
                                   [citizen |-> obj.citizen,
                                    voting_session |-> obj.voting_session])
    /\ UNCHANGED Result
    /\ AdminUnchanged

\* POST to the add page of Result
ResultAdmin_add_view(user) ==
    /\ admin.served < MaxAdminRequests
    /\ \E row \in ResultRows :
         IF ResultAdmin_has_add_permission(user)
         THEN /\ Result' = Result \cup {[id |-> NextId(Result)] @@ row}
              /\ admin' = AdminResponse("Result", "add", user, 302,
                                     NoObject)
         ELSE /\ UNCHANGED Result
              /\ admin' = AdminResponse("Result", "add", user, 403,
                                     NoObject)
    /\ UNCHANGED CitizenHasVoted
    /\ AdminUnchanged

\* POST to the change page of a Result row
ResultAdmin_change_view(user) ==
    /\ admin.served < MaxAdminRequests
    /\ \E obj \in Result :
         \E row \in ResultRows :
            IF ResultAdmin_has_change_permission(user)
            THEN /\ Result' = (Result \ {obj}) \cup {[id |-> obj.id] @@ row}
                 /\ admin' = AdminResponse("Result", "change", user, 302,
                                     NoObject)
            ELSE /\ UNCHANGED Result
                 /\ admin' = AdminResponse("Result", "change", user, 403,
                                     NoObject)
    /\ UNCHANGED CitizenHasVoted
    /\ AdminUnchanged

\* POST to the delete page of a Result row
ResultAdmin_delete_view(user) ==
    /\ admin.served < MaxAdminRequests
    /\ \E obj \in Result :
         IF ResultAdmin_has_delete_permission(user)
         THEN /\ Result' = Result \ {obj}
              /\ admin' = AdminResponse("Result", "delete", user, 302,
                                   [citizen |-> None,
                                    voting_session |-> obj.voting_session])
         ELSE /\ UNCHANGED Result
              /\ admin' = AdminResponse("Result", "delete", user, 403,
                                   [citizen |-> None,
                                    voting_session |-> obj.voting_session])
    /\ UNCHANGED CitizenHasVoted
    /\ AdminUnchanged

\* ledgers as the cast-vote transaction leaves them (views.py, lines 262-276):
\* a Result row of the session, for an option of the session, with each
\* CitizenHasVoted row
InitAdmin ==
    /\ Init
    /\ \A s \in VotingSessionIds :
          VotingSession_voters_count(s) = Cardinality({y \in Result : y.voting_session = s})
    /\ \A y \in Result : Option[y.option].voting_session_id = y.voting_session

NextAdmin ==
    \/ \E r \in Requests : CastVoteView_post_unauthorized(r)
    \/ \E r \in Requests : CastVoteView_post_validate(r)
    \/ \E r \in Requests : CastVoteView_post_fetch(r)
    \/ \E r \in Requests : CastVoteView_post_atomic(r)
    \/ Tick
    \/ \E user \in AdminUsers : CitizenHasVotedAdmin_add_view(user)
    \/ \E user \in AdminUsers : CitizenHasVotedAdmin_change_view(user)
    \/ \E user \in AdminUsers : CitizenHasVotedAdmin_delete_view(user)
    \/ \E user \in AdminUsers : ResultAdmin_add_view(user)
    \/ \E user \in AdminUsers : ResultAdmin_change_view(user)
    \/ \E user \in AdminUsers : ResultAdmin_delete_view(user)

SpecAdmin == InitAdmin /\ [][NextAdmin]_vars

(***************************************************************************)
(* What the claims speak of.                                               *)
(***************************************************************************)
\* request r is answered in this step
Answered(r) == request[r].pc # "done" /\ request'[r].pc = "done"

\* the voter ledger holds a row for (citizen c, session s)
RowFor(c, s) == \E x \in CitizenHasVoted : x.citizen = c /\ x.voting_session = s

\* the session exists and is open now
OpenNow(s) ==
    /\ s \in DOMAIN VotingSession
    /\ VotingSession[s].is_active
    /\ VotingSession[s].start_date <= now /\ now <= VotingSession[s].end_date

\* the option exists and belongs to the session
OptionOf(o, s) == o \in DOMAIN Option /\ Option[o].voting_session_id = s

\* the AlreadyVoted answer, from the serializer (lines 189-195) or from the view
\* (lines 249-254)
IsAlreadyVoted(resp) ==
    /\ resp.status = 400
    /\ \/ resp.error = "Already voted"
       \/ resp.detail = {"You have already voted in this session."}

LedgersUnchanged == CitizenHasVoted' = CitizenHasVoted /\ Result' = Result

(***************************************************************************)
(* C1: in every reachable state the voter ledger holds at most one row for *)
(* each (citizen, voting session) pair.                                    *)
(***************************************************************************)
C1_OneRowPerCitizenAndSession ==
    \A c \in DOMAIN Citizen, s \in DOMAIN VotingSession :
        Cardinality({x \in CitizenHasVoted : x.citizen = c /\ x.voting_session = s}) <= 1

\* two requests for a pair that has its row have both been answered
C1_Witness ==
    \E c \in DOMAIN Citizen, s \in DOMAIN VotingSession :
        /\ RowFor(c, s)
        /\ \A r \in Requests :
              /\ request[r].pc = "done"
              /\ request[r].citizen_id = c /\ request[r].voting_session_id = s
              /\ IsAlreadyVoted(request[r].response)

(***************************************************************************)
(* C2: of the cast-vote requests for one (citizen, session) pair that run  *)
(* concurrently, exactly one ends in success and every other one ends      *)
(* with AlreadyVoted.  Stated of the step that answers a request out of    *)
(* the atomic block while another request for the same pair is past its    *)
(* validation and not yet answered: if the pair has no row yet, this       *)
(* request is the one that succeeds, else it is answered AlreadyVoted.     *)
(***************************************************************************)
C2_ExactlyOneSuccess ==
    [][\A r, q \in Requests :
          ( /\ r # q
            /\ request[r].pc = "fetched" /\ Answered(r)
            /\ request[q].pc \in {"validated", "fetched"}
            /\ request[q].citizen_id = request[r].citizen_id
            /\ request[q].voting_session_id = request[r].voting_session_id )
          => IF RowFor(request[r].citizen_id, request[r].voting_session_id)
               THEN IsAlreadyVoted(request'[r].response)
               ELSE request'[r].response.status = 201]_vars

(***************************************************************************)
(* C4: a cast-vote request of an authenticated citizen who has not voted,  *)
(* in an open session of their own municipality and with an option of      *)
(* that session, succeeds and adds exactly one row to the voter ledger     *)
(* (citizen, session, timestamp) and exactly one row to the tally.         *)
(***************************************************************************)
C4_CastVoteSucceeds ==
    [][\A r \in Requests :
          ( /\ request[r].pc = "fetched" /\ Answered(r)
            /\ OpenNow(request[r].voting_session_id)
            /\ OptionOf(request[r].option_id, request[r].voting_session_id)
            /\ Citizen[request[r].citizen_id].municipality
                 = VotingSession[request[r].voting_session_id].municipality
            /\ ~RowFor(request[r].citizen_id, request[r].voting_session_id) )
          => /\ request'[r].response.status = 201
             /\ \E x \in CitizenHasVoted' :
                   /\ CitizenHasVoted' = CitizenHasVoted \cup {x}
                   /\ x \notin CitizenHasVoted
                   /\ x.citizen = request[r].citizen_id
                   /\ x.voting_session = request[r].voting_session_id
                   /\ x.timestamp = now
             /\ \E y \in Result' :
                   /\ Result' = Result \cup {y}
                   /\ y \notin Result
                   /\ y.voting_session = request[r].voting_session_id
                   /\ y.option = request[r].option_id]_vars

(***************************************************************************)
(* C5: once the voter ledger holds the row of (citizen, session), which a  *)
(* successful cast-vote request leaves, every cast-vote request of that    *)
(* citizen for that session, open and with an option of the session, is    *)
(* answered AlreadyVoted and leaves the voter ledger and the tally         *)
(* unchanged.                                                              *)
(***************************************************************************)
C5_SecondVoteIsAlreadyVoted ==
    [][\A r \in Requests :
          ( /\ Answered(r)
            /\ request'[r].citizen_id \in DOMAIN Citizen
            /\ OpenNow(request'[r].voting_session_id)
            /\ OptionOf(request'[r].option_id, request'[r].voting_session_id)
            /\ RowFor(request'[r].citizen_id, request'[r].voting_session_id) )
          => IsAlreadyVoted(request'[r].response) /\ LedgersUnchanged]_vars

\* a request for a pair that has its row has been answered AlreadyVoted
C5_Witness ==
    \E r \in Requests :
        /\ request[r].pc = "done"
        /\ RowFor(request[r].citizen_id, request[r].voting_session_id)
        /\ OptionOf(request[r].option_id, request[r].voting_session_id)
        /\ IsAlreadyVoted(request[r].response)

(***************************************************************************)
(* C7: a cast-vote request of a citizen of one municipality against a      *)
(* session of another municipality, once past authentication and           *)
(* validation, is answered 403 (Access denied) and writes no row to either *)
(* ledger.                                                                 *)
(***************************************************************************)
C7_MunicipalityMismatch ==
    [][\A r \in Requests :
          ( /\ request[r].pc = "validated" /\ request'[r] # request[r]
            /\ request[r].voting_session_id \in DOMAIN VotingSession
            /\ request[r].option_id \in DOMAIN Option
            /\ Citizen[request[r].citizen_id].municipality
                 # VotingSession[request[r].voting_session_id].municipality )
          => /\ request'[r].pc = "done"
             /\ request'[r].response.status = 403
             /\ request'[r].response.error = "Access denied"
             /\ LedgersUnchanged]_vars

\* a citizen of one municipality has been answered 403 for a session of the other
C7_Witness ==
    \E r \in Requests :
        /\ request[r].pc = "done" /\ request[r].response.status = 403
        /\ Citizen[request[r].citizen_id].municipality
             # VotingSession[request[r].voting_session_id].municipality

(***************************************************************************)
(* C9: a cast-vote request of an authenticated citizen against a session   *)
(* that is not open (inactive, not yet started, or ended) is answered 400  *)
(* with the closed-voting error and writes no row; and a step that adds a  *)
(* ledger row is taken for a session that was open when its request was    *)
(* validated, that is by a request past validation.                        *)
(***************************************************************************)
C9_VotingClosed ==
    [][/\ \A r \in Requests :
            ( /\ request[r].pc = "idle" /\ request'[r] # request[r]
              /\ request'[r].citizen_id \in DOMAIN Citizen
              /\ request'[r].voting_session_id \in DOMAIN VotingSession
              /\ ~OpenNow(request'[r].voting_session_id) )
            => /\ request'[r].pc = "done"
               /\ request'[r].response.status = 400
               /\ request'[r].response.detail
                    \cap {"Voting session is not active.", "Voting is closed."} # {}
               /\ LedgersUnchanged
       /\ ~LedgersUnchanged =>
            \E r \in Requests : request[r].pc = "fetched" /\ Answered(r)]_vars

\* one request was answered for an inactive session, another for an ended one
C9_Witness ==
    \E r, q \in Requests :
        /\ request[r].pc = "done" /\ request[r].response.status = 400
        /\ request[r].response.detail = {"Voting session is not active."}
        /\ request[q].pc = "done" /\ request[q].response.status = 400
        /\ request[q].response.detail = {"Voting is closed."}
        /\ now > VotingSession[request[q].voting_session_id].end_date

(***************************************************************************)
(* C10: a cast-vote request of an authenticated citizen for an open        *)
(* session, whose option exists and belongs to another session, is         *)
(* answered 400 with the option error and writes nothing; and every row a  *)
(* step adds to the tally names an option of the row's session.            *)
(***************************************************************************)
C10_OptionMismatch ==
    [][/\ \A r \in Requests :
            ( /\ request[r].pc = "idle" /\ request'[r] # request[r]
              /\ request'[r].citizen_id \in DOMAIN Citizen
              /\ OpenNow(request'[r].voting_session_id)
              /\ request'[r].option_id \in DOMAIN Option
              /\ ~OptionOf(request'[r].option_id, request'[r].voting_session_id) )
            => /\ request'[r].pc = "done"
               /\ request'[r].response.status = 400
               /\ request'[r].response.detail
                    = {"Option does not belong to this voting session."}
               /\ LedgersUnchanged
       /\ \A y \in Result' \ Result : OptionOf(y.option, y.voting_session)]_vars

\* a request for an open session with an option of another session was answered
C10_Witness ==
    \E r \in Requests :
        /\ request[r].pc = "done"
        /\ request[r].response.detail = {"Option does not belong to this voting session."}
        /\ request[r].option_id \in DOMAIN Option
        /\ ~OptionOf(request[r].option_id, request[r].voting_session_id)

(***************************************************************************)
(* What the claims about the handshake speak of.                           *)
(***************************************************************************)
\* callback r takes its first step, reading its parameters
CallbackReads(r) == callback[r].pc = "idle" /\ callback'[r] # callback[r]

\* callback r takes its second step and is answered
CallbackFinishes(r) == callback[r].pc = "found" /\ callback'[r].pc = "done"

\* the citizen table holds a row for the fiscal code
CitizenOf(fiscal_code) ==
    {c \in DOMAIN Citizen : Citizen[c].fiscal_code_hash = hash_fiscal_code(fiscal_code)}

\* the session data of an authenticated client
SessionData(citizen_id, voting_session_id) ==
    [citizen_id |-> citizen_id,
     municipality_id |-> VotingSession[voting_session_id].municipality,
     voting_session_id |-> voting_session_id,
     authenticated_via |-> "SPID"]

(***************************************************************************)
(* C11: a callback whose state value is not one leg 1 produced is answered *)
(* with the invalid-state error (400, Invalid state parameter) and         *)
(* establishes no authenticated session.                                   *)
(***************************************************************************)
C11_TamperedStateIsInvalidState ==
    [][\A r \in Requests :
          ( /\ CallbackReads(r)
            /\ callback'[r].state # NoState
            /\ callback'[r].state \notin IssuedStates )
          => /\ callback'[r].pc = "done"
             /\ callback'[r].response.status = 400
             /\ callback'[r].response.error = "Invalid state parameter"
             /\ session' = session]_vars

(***************************************************************************)
(* C12: a callback with an expired token, signed by the key its header     *)
(* names and that key in the key set, ends with the expired-token outcome  *)
(* (Signature has expired), which no callback with a token that has not    *)
(* expired ends with; it establishes no session and creates no citizen.    *)
(***************************************************************************)
C12_TokenExpired ==
    [][\A r \in Requests :
          /\ ( /\ CallbackReads(r)
               /\ callback'[r].token # NoToken
               /\ callback'[r].token.kid \in jwks_cache'.keys
               /\ callback'[r].token.signed_by = callback'[r].token.kid
               /\ callback'[r].token.exp <= now )
             => /\ callback'[r].pc = "done"
                /\ callback'[r].response.status = 500
                /\ callback'[r].response.detail = "Signature has expired"
                /\ session' = session /\ Citizen' = Citizen
          /\ ( /\ CallbackReads(r)
               /\ callback'[r].token.exp > now )
             => callback'[r].response.detail # "Signature has expired"]_vars

\* a callback with an expired token and one with a forged signature have been
\* answered, each with its own outcome
C12_Witness ==
    \E r, q \in Requests :
        /\ callback[r].pc = "done"
        /\ callback[r].token.exp <= now /\ callback[r].token.signed_by = "k1"
        /\ callback[r].response.detail = "Signature has expired"
        /\ callback[q].pc = "done"
        /\ callback[q].token.signed_by = "attacker"
        /\ callback[q].response.detail = "Signature verification failed"
        /\ session[r] = EmptySession

(***************************************************************************)
(* C13: a callback with a valid state and token for a fiscal code whose    *)
(* Citizen is bound to the municipality of the session ends Authenticated, *)
(* with session data of citizen id, municipality id, voting-session id and *)
(* the SPID marker, and leaves the Citizen table as it was.                *)
(***************************************************************************)
C13_ExistingCitizenAuthenticated ==
    [][\A r \in Requests :
          ( /\ CallbackFinishes(r)
            /\ callback[r].citizen \in DOMAIN Citizen
            /\ Citizen[callback[r].citizen].municipality
                 = VotingSession[callback[r].voting_session_id].municipality )
          => /\ callback'[r].response.status = 200
             /\ session'[r] = SessionData(callback[r].citizen,
                                          callback[r].voting_session_id)
             /\ Citizen' = Citizen]_vars

(***************************************************************************)
(* C14: a callback with a valid state and token for a fiscal code that has *)
(* no Citizen creates exactly one Citizen, bound to the municipality of    *)
(* the session the state names, and ends Authenticated as that citizen.    *)
(***************************************************************************)
C14_NewCitizenCreated ==
    [][\A r \in Requests :
          ( /\ CallbackFinishes(r)
            /\ callback[r].citizen = None
            /\ CitizenOf(callback[r].fiscal_code) = {} )
          => \E c \in DOMAIN Citizen' \ DOMAIN Citizen :
               /\ DOMAIN Citizen' = DOMAIN Citizen \cup {c}
               /\ \A x \in DOMAIN Citizen : Citizen'[x] = Citizen[x]
               /\ Citizen'[c].municipality
                    = VotingSession[callback[r].voting_session_id].municipality
               /\ Citizen'[c].fiscal_code_hash = hash_fiscal_code(callback[r].fiscal_code)
               /\ callback'[r].response.status = 200
               /\ session'[r] = SessionData(c, callback[r].voting_session_id)]_vars

(***************************************************************************)
(* C15: a callback for an existing citizen whose municipality differs from *)
(* the municipality of the session the state names is answered 403 (Access *)
(* denied, Municipality mismatch); no session data is written and the      *)
(* Citizen table is not touched.                                           *)
(***************************************************************************)
C15_CallbackMunicipalityMismatch ==
    [][\A r \in Requests :
          ( /\ callback[r].pc = "found" /\ callback'[r] # callback[r]
            /\ callback[r].citizen \in DOMAIN Citizen
            /\ Citizen[callback[r].citizen].municipality
                 # VotingSession[callback[r].voting_session_id].municipality )
          => /\ callback'[r].pc = "done"
             /\ callback'[r].response.status = 403
             /\ callback'[r].response.error = "Access denied"
             /\ callback'[r].response.detail = "Municipality mismatch"
             /\ session' = session /\ Citizen' = Citizen]_vars

\* a callback of a citizen of one municipality for a session of the other was
\* answered 403 and its client holds no session data
C15_Witness ==
    \E r \in Requests :
        /\ callback[r].pc = "done" /\ callback[r].response.status = 403
        /\ callback[r].citizen \in DOMAIN Citizen
        /\ Citizen[callback[r].citizen].municipality
             # VotingSession[callback[r].voting_session_id].municipality
        /\ session[r] = EmptySession

(***************************************************************************)
(* C16: of two callbacks for one fiscal code without a Citizen that run    *)
(* concurrently, both end Authenticated as the same citizen and one row is *)
(* created.  Stated of the step that answers one of them while the other   *)
(* has looked the citizen up too: it ends Authenticated as the citizen of  *)
(* the fiscal code, of which the table then holds exactly one row.         *)
(***************************************************************************)
C16_ConcurrentFirstLogins ==
    [][\A r, q \in Requests :
          ( /\ r # q
            /\ CallbackFinishes(r)
            /\ callback[r].citizen = None
            /\ callback[q].pc \in {"found", "done"}
            /\ callback[q].citizen = None
            /\ hash_fiscal_code(callback[q].fiscal_code)
                 = hash_fiscal_code(callback[r].fiscal_code)
            /\ callback[q].voting_session_id = callback[r].voting_session_id )
          => /\ callback'[r].response.status = 200
             /\ \E c \in DOMAIN Citizen' :
                  /\ {x \in DOMAIN Citizen' : Citizen'[x].fiscal_code_hash
                         = hash_fiscal_code(callback[r].fiscal_code)} = {c}
                  /\ session'[r].citizen_id = c]_vars

(***************************************************************************)
(* C17: in every reachable state the Citizen table holds at most one row   *)
(* for each fiscal-code hash; no callback for a fiscal code that has its   *)
(* Citizen adds another.                                                   *)
(***************************************************************************)
C17_OneCitizenPerFiscalCodeHash ==
    \A c \in DOMAIN Citizen :
        Cardinality({x \in DOMAIN Citizen :
                        Citizen[x].fiscal_code_hash = Citizen[c].fiscal_code_hash}) = 1

\* two callbacks for the fiscal code of a citizen have gone through both
\* their steps, and the table holds the one row of that fiscal code
C17_Witness ==
    \E r, q \in Requests :
        /\ r # q
        /\ callback[r].pc = "done" /\ callback[q].pc = "done"
        /\ callback[r].citizen \in DOMAIN Citizen
        /\ callback[q].citizen = callback[r].citizen
        /\ callback[r].response.status \in {400, 403}
        /\ CitizenOf(callback[r].fiscal_code) = {callback[r].citizen}

(***************************************************************************)
(* C18: no step of leg 1 or of a callback removes a Citizen or changes the *)
(* municipality of one.                                                    *)
(***************************************************************************)
C18_MunicipalityNeverChanges ==
    [][\A c \in DOMAIN Citizen :
          /\ c \in DOMAIN Citizen'
          /\ Citizen'[c].municipality = Citizen[c].municipality]_vars

\* a callback for a citizen of the session's municipality went through the
\* save of line 229, another for a citizen of the other municipality was
\* refused, and each citizen is in the municipality of the initial table
C18_Witness ==
    /\ \E r, q \in Requests :
          /\ callback[r].pc = "done" /\ callback[r].citizen \in DOMAIN Citizen
          /\ callback[r].response.detail = "The following fields do not exist in this model"
          /\ callback[q].pc = "done" /\ callback[q].citizen \in DOMAIN Citizen
          /\ callback[q].response.status = 403
    /\ \A c \in DOMAIN Citizen : Citizen[c].municipality = InitCitizen[c].municipality

C20_UnknownKeyAfterRefetch ==
    [][\A r \in Requests :
          ( /\ CallbackReads(r)
            /\ callback'[r].response.detail = "Signing key with kid not found in JWKS" )
          => callback'[r].token.kid \notin jwks_provider]_vars

(***************************************************************************)
(* Claims C21..C30.                                                        *)
(***************************************************************************)
\* the step in which the view reads request r
RequestReads(r) == request[r].pc = "idle" /\ request'[r] # request[r]

\* a read-only endpoint answers in this step
Served == listing'.served # listing.served

(***************************************************************************)
(* C21: a response carries the vote count of an option or the number of    *)
(* voters of a session only when, as it is served, the session's           *)
(* results_public is true or the session is not open; for a session that   *)
(* is open with results_public false every count of the response is None.  *)
(***************************************************************************)
C21_CountsOnlyWhenPublicOrClosed ==
    [][Served =>
         \A e \in listing'.sessions :
            ( \/ ~e.total_voters.none
              \/ \E o \in e.options : ~o.vote_count.none )
            => VotingSession[e.id].results_public \/ ~OpenNow(e.id)]_vars

\* the list was served with an open session whose results are not public and
\* which has votes: no count in its entry
C21_Witness ==
    \E e \in listing.sessions :
       /\ listing.status = 200
       /\ e.is_open /\ ~e.results_public
       /\ e.total_voters = NoneCount
       /\ \A o \in e.options : o.vote_count = NoneCount
       /\ \E y \in Result : y.voting_session = e.id
       /\ \E x \in CitizenHasVoted : x.voting_session = e.id

(***************************************************************************)
(* C22: a cast-vote request of an authenticated citizen that names a       *)
(* voting session or an option that does not exist is answered 404 and     *)
(* writes nothing.                                                         *)
(***************************************************************************)
C22_NonexistentIsNotFound ==
    [][\A r \in Requests :
          ( /\ RequestReads(r)
            /\ request'[r].citizen_id \in DOMAIN Citizen
            /\ \/ request'[r].voting_session_id \notin DOMAIN VotingSession
               \/ request'[r].option_id \notin DOMAIN Option )
          => /\ request'[r].pc = "done"
             /\ request'[r].response.status = 404
             /\ LedgersUnchanged]_vars

C24_DifferentPairsDoNotBlock ==
    \A r, q \in Requests :
       ( /\ r # q
         /\ request[r].pc = "in_transaction"
         /\ \/ request[q].citizen_id # request[r].citizen_id
            \/ request[q].voting_session_id # request[r].voting_session_id )
       => /\ request[q].pc = "fetched" => ENABLED CastVoteView_post_select_for_update(q)
          /\ request[q].pc = "in_transaction" => ENABLED CastVoteView_post_commit(q)

\* a commit is in progress, the voter ledger holds rows, and a request for
\* another pair is about to begin its own
C24_Witness ==
    \E r, q \in Requests :
       /\ request[r].pc = "in_transaction"
       /\ request[q].pc = "fetched"
       /\ request[q].citizen_id # request[r].citizen_id
       /\ request[q].voting_session_id # request[r].voting_session_id
       /\ CitizenHasVoted # {}

(***************************************************************************)
(* C25: for every string s, the empty string included, decrypt(encrypt(s)) *)
(* is s, and two calls of encrypt(s) give different ciphertexts that both  *)
(* decrypt to s.                                                           *)
(***************************************************************************)
C25_EncryptionRoundTrip ==
    /\ \A i \in 1..Len(crypto.decrypted) : crypto.decrypted[i] = Str(crypto.data)
    /\ \A i, j \in 1..Len(crypto.encrypted) :
          i # j => crypto.encrypted[i] # crypto.encrypted[j]

(***************************************************************************)
(* C26: the fiscal-code hash depends only on the trimmed, uppercased       *)
(* fiscal code: a casing and whitespace variant of a fiscal code has the   *)
(* digest of the normalized code, and a callback whose token carries the   *)
(* code or its variant resolves to the one Citizen holding that digest.    *)
(***************************************************************************)
C26_HashOfNormalizedFiscalCode ==
    [][/\ hash_fiscal_code(RSS_variant) = sha256(RSS)
       /\ hash_fiscal_code(RSS) = sha256(RSS)
       /\ \A r \in Requests :
             ( /\ CallbackReads(r)
               /\ callback'[r].pc = "found"
               /\ callback'[r].token.fiscalNumber \in {RSS, RSS_variant} )
             => /\ callback'[r].citizen \in DOMAIN Citizen
                /\ Citizen[callback'[r].citizen].fiscal_code_hash = sha256(RSS)
                /\ \A c \in DOMAIN Citizen :
                      Citizen[c].fiscal_code_hash = sha256(RSS)
                        => c = callback'[r].citizen]_vars

\* one callback presented the fiscal code, the other its variant; both found the same Citizen
C26_Witness ==
    \E r, q \in Requests :
       /\ callback[r].pc # "idle" /\ callback[r].token.fiscalNumber = RSS
       /\ callback[q].pc = "found" /\ callback[q].token.fiscalNumber = RSS_variant
       /\ callback[r].citizen = callback[q].citizen
       /\ callback[q].citizen \in DOMAIN Citizen

(***************************************************************************)
(* C28: every callback that ends in an error leaves the session data of    *)
(* its client and the Citizen table as they were; a callback that has not  *)
(* yet answered has written neither; session data changes only in the      *)
(* last step of a callback answered 200.                                   *)
(***************************************************************************)
C28_ErrorCallbackWritesNothing ==
    [][\A r \in Requests :
          /\ ( /\ callback[r].pc # "done" /\ callback'[r].pc = "done"
               /\ callback'[r].response.status # 200 )
             => session' = session /\ Citizen' = Citizen
          /\ ( callback'[r] # callback[r] /\ callback'[r].pc # "done" )
             => session' = session /\ Citizen' = Citizen
          /\ session'[r] # session[r]
             => CallbackFinishes(r) /\ callback'[r].response.status = 200]_vars

\* a callback of a registered citizen was refused for the municipality and the
\* callback of an unregistered person failed; no session data, the table as it was
C28_Witness ==
    /\ \E r, q \in Requests :
          /\ callback[r].pc = "done" /\ callback[r].response.status = 403
          /\ callback[q].pc = "done" /\ callback[q].response.status = 500
          /\ callback[q].fiscal_code = BNC
    /\ session = [r \in Requests |-> EmptySession]
    /\ Citizen \in CitizenTables

(***************************************************************************)
(* C29: leg 1 changes no server-side state: its step leaves the session    *)
(* data, the Citizen table, both ledgers, the voting sessions and the      *)
(* caches as they were, so the state and nonce it answers with are held    *)
(* nowhere on the server.                                                  *)
(***************************************************************************)
C29_LoginChangesNoServerState ==
    [][login' # login =>
         /\ session' = session
         /\ Citizen' = Citizen
         /\ CitizenHasVoted' = CitizenHasVoted /\ Result' = Result
         /\ VotingSession' = VotingSession
         /\ jwks_cache' = jwks_cache /\ metadata_cache' = metadata_cache]_vars

\* leg 1 answered with a state; no session data, no new Citizen, no ledger row
C29_Witness ==
    /\ login.pc = "done" /\ login.response.status = 200
    /\ login.response.state # NoState
    /\ session = [r \in Requests |-> EmptySession]
    /\ Citizen \in CitizenTables
    /\ CitizenHasVoted = {} /\ Result = {}
    /\ callback = [r \in Requests |-> IdleCallback]

\* a call of get_oidc_metadata or get_jwks is made in this step
OidcCalled == oidc_call'.calls # oidc_call.calls

\* the number of requests of url among the outbound requests of a call
Occurrences(requests, url) == Cardinality({i \in 1..Len(requests) : requests[i] = url})

\* the cache holds an entry that has not timed out
Cached(entry) == entry.set /\ now < entry.expires_at

(***************************************************************************)
(* C30: the metadata and the key set are each fetched at most once per     *)
(* 24-hour window.  A call while its cache entry is in force makes no      *)
(* outbound request and leaves the entry as it is.  A call on a miss       *)
(* requests its URL exactly once and caches the answer for 24 hours        *)
(* (get_jwks first obtains the metadata, which on a metadata miss is one   *)
(* request of the metadata URL).  A failed request is not repeated, is     *)
(* raised to the caller, and leaves the cache of its resource empty.       *)
(***************************************************************************)
C30_FetchedOncePerWindow ==
    [][OidcCalled =>
         LET call == oidc_call'
             jwks == call.function = "get_jwks"
             url == IF jwks THEN JwksUri ELSE MetadataUrl
             before == IF jwks THEN jwks_cache ELSE metadata_cache
             after == IF jwks THEN jwks_cache' ELSE metadata_cache'
             duration == IF jwks THEN JWKS_CACHE_DURATION ELSE METADATA_CACHE_DURATION
         IN  /\ \A u \in Urls : Occurrences(call.requests, u) <= 1
             /\ Cached(metadata_cache) => Occurrences(call.requests, MetadataUrl) = 0
             /\ Cached(before) =>
                   /\ call.requests = <<>>
                   /\ call.raised = NotRaised
                   /\ after = before
             /\ ~Cached(before) =>
                   \/ /\ call.raised = NotRaised
                      /\ Occurrences(call.requests, url) = 1
                      /\ after.set /\ after.expires_at = now + duration
                   \/ /\ call.raised.exception = "RequestException"
                      /\ call.requests # <<>>
                      /\ ~Cached(after)
                      /\ LET failed == call.requests[Len(call.requests)]
                         IN  failed # url =>
                               /\ jwks /\ failed = MetadataUrl
                               /\ ~Cached(metadata_cache')]_vars

\* get_jwks found the metadata cached and its request of the jwks_uri failed:
\* one request, the exception, no key set cached
C30_Witness ==
    /\ oidc_call.function = "get_jwks"
    /\ oidc_call.calls >= 2
    /\ oidc_call.raised.exception = "RequestException"
    /\ oidc_call.requests = <<JwksUri>>
    /\ Cached(metadata_cache)
    /\ ~Cached(jwks_cache)

(***************************************************************************)
(* Claims C31..C39.                                                        *)
(***************************************************************************)
(***************************************************************************)
(* C31: after the provider has rotated a new signing key in, a cached key  *)
(* set without it is replaced at its expiry: once 24 hours have passed     *)
(* since the key set was cached, the next verification of a token signed   *)
(* with the new key fetches the provider's key set, caches it, and the     *)
(* token passes verification.                                              *)
(***************************************************************************)
C31_StaleKeySetReplacedAtExpiry ==
    [][\A r \in Requests :
          ( /\ CallbackReads(r)
            /\ callback'[r].token.kid = "k2" /\ callback'[r].token.signed_by = "k2"
            /\ jwks_provider = {"k1", "k2"}
            /\ jwks_cache.set /\ jwks_cache.keys = {"k1"}
            /\ now >= jwks_cache.expires_at )
          => /\ jwks_cache'.set /\ jwks_cache'.keys = {"k1", "k2"}
             /\ jwks_cache'.expires_at = now + JWKS_CACHE_DURATION
             /\ callback'[r].pc = "found"]_vars

\* a token of the new key was refused for its key, and after the cached key
\* set was replaced a token of the new key has passed verification
C31_Witness ==
    \E r, q \in Requests :
       /\ callback[q].pc = "done" /\ callback[q].token.kid = "k2"
       /\ callback[q].response.detail = "Signing key with kid not found in JWKS"
       /\ callback[r].pc = "found" /\ callback[r].token.kid = "k2"
       /\ jwks_cache.keys = {"k1", "k2"}

\* the place of an option in a sequence of options
PlaceOf(option, options) == CHOOSE i \in 1..Len(options) : options[i] = option

\* |x|
Abs(x) == IF x < 0 THEN -x ELSE x

(***************************************************************************)
(* C32: get_results returns one entry per option of the session; the       *)
(* entry's vote_count is the number of Result rows of the option; its      *)
(* percentage is vote_count / total_votes x 100 to two decimals (the       *)
(* hundredth nearest to it), and 0 for every option when total_votes is 0; *)
(* the entries are in non-increasing order of vote_count, and entries of   *)
(* equal vote_count are in the order their options were given in.          *)
(***************************************************************************)
C32_ComputeResults ==
    listing.options # <<>> =>
       LET out == listing.results
           options == listing.options
           total == Cardinality({y \in Result : y.voting_session = listing.voting_session})
       IN  /\ Len(out) = Len(options)
           /\ \A i \in 1..Len(options) :
                 Cardinality({j \in 1..Len(out) : out[j].option_id = options[i]}) = 1
           /\ \A j \in 1..Len(out) :
                 /\ out[j].vote_count
                      = Cardinality({y \in Result : y.option = out[j].option_id})
                 /\ IF total = 0 THEN out[j].percentage = 0
                    ELSE 2 * Abs(out[j].percentage * total - 10000 * out[j].vote_count)
                           <= total
           /\ \A i, j \in 1..Len(out) :
                 i < j =>
                    /\ out[i].vote_count >= out[j].vote_count
                    /\ out[i].vote_count = out[j].vote_count
                         => PlaceOf(out[i].option_id, options)
                              < PlaceOf(out[j].option_id, options)

\* one vote of three for the first option given, two for the second: the
\* second comes first, with 66.67 and 33.33
C32_Witness ==
    /\ listing.options = <<1, 2>>
    /\ Len(listing.results) = 2
    /\ listing.results[1].option_id = 2 /\ listing.results[1].percentage = 6667
    /\ listing.results[2].option_id = 1 /\ listing.results[2].percentage = 3333

\* a request to the admin pages is answered in this step
AdminServed == admin'.served # admin.served

(***************************************************************************)
(* C34: both ledgers are append-only.  A step of the API leaves every      *)
(* CitizenHasVoted row and every Result row in its table as it is; a       *)
(* request to the admin pages never adds a row and never changes one, and  *)
(* removes a row only on the delete page and for a superuser.              *)
(***************************************************************************)
C34_LedgersAppendOnly ==
    [][/\ ~AdminServed
          => CitizenHasVoted \subseteq CitizenHasVoted' /\ Result \subseteq Result'
       /\ AdminServed
          => /\ CitizenHasVoted' \subseteq CitizenHasVoted
             /\ Result' \subseteq Result
             /\ (CitizenHasVoted' # CitizenHasVoted \/ Result' # Result)
                  => admin'.view = "delete" /\ admin'.is_superuser]_vars

\* a cast-vote request went through the transaction beside a row of the ledger,
\* and a staff member who is no superuser was refused the deletion of a row
C34_Witness ==
    /\ admin.view = "delete" /\ ~admin.is_superuser /\ admin.status = 403
    /\ CitizenHasVoted # {} /\ Result # {}
    /\ \E r \in Requests : request[r].pc = "done" /\ request[r].response.status = 500

(***************************************************************************)
(* C35: acceptance of a cast-vote request depends on the citizen id of the *)
(* session data and not on the voting-session id stored beside it: a       *)
(* request of a citizen whose session data names session S1, for another   *)
(* session S2 that is open and of the citizen's municipality, with an      *)
(* option of S2 and no earlier vote in S2, is answered 201 and the ledger  *)
(* then holds a row for the citizen in S2.                                 *)
(***************************************************************************)
C35_VoteInAnotherSession ==
    [][\A r \in Requests : \A S1 \in VotingSessionIdInputs :
          ( /\ request[r].pc = "fetched" /\ Answered(r)
            /\ S1 # request[r].voting_session_id
            /\ OpenNow(request[r].voting_session_id)
            /\ OptionOf(request[r].option_id, request[r].voting_session_id)
            /\ Citizen[request[r].citizen_id].municipality
                 = VotingSession[request[r].voting_session_id].municipality
            /\ ~RowFor(request[r].citizen_id, request[r].voting_session_id) )
          => /\ request'[r].response.status = 201
             /\ \E x \in CitizenHasVoted' \ CitizenHasVoted :
                   /\ x.citizen = request[r].citizen_id
                   /\ x.voting_session = request[r].voting_session_id]_vars

(***************************************************************************)
(* C36: the callback does not check again that the voting session is open: *)
(* a callback of a registered citizen of the session's municipality, for a *)
(* session that is no longer open when the callback is finished, still     *)
(* ends Authenticated (200, with the session data).                        *)
(***************************************************************************)
C36_ClosedSessionStillAuthenticates ==
    [][\A r \in Requests :
          ( /\ CallbackFinishes(r)
            /\ VotingSession[callback[r].voting_session_id].start_date <= now
            /\ ~OpenNow(callback[r].voting_session_id)
            /\ callback[r].citizen \in DOMAIN Citizen
            /\ Citizen[callback[r].citizen].municipality
                 = VotingSession[callback[r].voting_session_id].municipality )
          => /\ callback'[r].response.status = 200
             /\ callback'[r].response.message = "Authentication successful"
             /\ session'[r].voting_session_id = callback[r].voting_session_id
             /\ session'[r].citizen_id = callback[r].citizen]_vars

(***************************************************************************)
(* C39: after a superuser has deleted the CitizenHasVoted row of a citizen *)
(* in a session through the admin, the citizen's next cast-vote request in *)
(* that session is accepted again (201): it adds a Result row to the one   *)
(* the citizen's first vote left, and the tally of the session then        *)
(* exceeds its number of voters.                                           *)
(***************************************************************************)
C39_VoteAgainAfterDeletion ==
    [][\A r \in Requests :
          LET c == request[r].citizen_id
              s == request[r].voting_session_id
              tally(table) == Cardinality({y \in table : y.voting_session = s})
              voters(table) == Cardinality({x \in table : x.voting_session = s})
          IN  ( /\ request[r].pc = "fetched" /\ Answered(r)
                /\ admin.model = "CitizenHasVoted" /\ admin.view = "delete"
                /\ admin.status = 302 /\ admin.is_superuser
                /\ admin.obj.citizen = c /\ admin.obj.voting_session = s
                /\ ~RowFor(c, s)
                /\ tally(Result) > 0
                /\ OpenNow(s) /\ OptionOf(request[r].option_id, s)
                /\ Citizen[c].municipality = VotingSession[s].municipality )
              => /\ request'[r].response.status = 201
                 /\ tally(Result') = tally(Result) + 1
                 /\ tally(Result') > voters(CitizenHasVoted')]_vars

(***************************************************************************)
(* C37: every cast-vote request that has arrived is eventually answered,   *)
(* whatever the other requests do and whether they are for the same        *)
(* (citizen, session) pair or for another one, when every request handler  *)
(* is scheduled fairly.                                                    *)
(***************************************************************************)
C37_EveryRequestReturns ==
    \A r \in Requests : (request[r].pc # "idle") ~> (request[r].pc = "done")

\* two requests for the same pair have both been through the transaction and
\* both are answered
C37_Witness ==
    \E r, q \in Requests :
       /\ r # q
       /\ request[r].pc = "done" /\ request[q].pc = "done"
       /\ request[r].citizen_id = request[q].citizen_id
       /\ request[r].voting_session_id = request[q].voting_session_id
       /\ request[r].response.error = "Failed to cast vote"
       /\ request[q].response.error = "Failed to cast vote"
       /\ \A p \in Requests : locks[p] = {}

====
